---- MODULE Spec2Model ----
(***************************************************************************)
(* Model of the Pylon MCP server's filter sanitizer (pylon-client.ts),     *)
(* its response projector (schemas.ts) and the client operations that use  *)
(* them.  A behaviour is one invocation: a call starts in the idle state,  *)
(* and its only suspension point is the HTTP call made by                  *)
(* PylonClient.request.                                                    *)
(***************************************************************************)
EXTENDS Integers, Sequences, FiniteSets, TLC

VARIABLES
    op,       \* the function or client method being invoked ("none" before the first call)
    arg,      \* its arguments
    phase,    \* "idle" | "awaiting" (fetch in flight) | "returned" | "thrown"
    sent,     \* the HTTP requests issued by the current invocation, in order
    result,   \* the value returned, or the error thrown
    chained,  \* TRUE when arg.filter is the value returned by the previous cleanFilter call
    received, \* the HTTP response the current invocation received, if any
    whitelist, \* the contents of the module-level VALID_OPERATORS object
    heap      \* the caller's filter and raw record as they are now, and the
              \* number of view objects constructed so far

vars == <<op, arg, phase, sent, result, chained, received, whitelist, heap>>

(***************************************************************************)
(* JSON values.  Every value has the same shape so that any two values can *)
(* be compared: t is the JavaScript type, s the payload of a string or     *)
(* boolean, n the payload of a number, a the elements of an array, o the   *)
(* entries of an object in insertion order.                                *)
(***************************************************************************)
Undef == [t |-> "undefined", s |-> "", n |-> 0, a |-> <<>>, o |-> <<>>]

Null == [t |-> "null", s |-> "", n |-> 0, a |-> <<>>, o |-> <<>>]

Str(x) == [t |-> "string", s |-> x, n |-> 0, a |-> <<>>, o |-> <<>>]

Num(k) == [t |-> "number", s |-> "", n |-> k, a |-> <<>>, o |-> <<>>]

Bool(b) ==
    [t |-> "boolean", s |-> IF b THEN "true" ELSE "false", n |-> 0, a |-> <<>>, o |-> <<>>]

Arr(xs) == [t |-> "array", s |-> "", n |-> 0, a |-> xs, o |-> <<>>]

Obj(es) == [t |-> "object", s |-> "", n |-> 0, a |-> <<>>, o |-> es]

Entry(key, val) == [k |-> key, v |-> val]

\* Object.keys(v)
Keys(v) == {v.o[i].k : i \in 1..Len(v.o)}

\* v[key]: the own property of an object, undefined when absent or when v is no object
Get(v, key) ==
    IF v.t = "object" /\ key \in Keys(v)
    THEN (CHOOSE e \in {v.o[i] : i \in 1..Len(v.o)} : e.k = key).v
    ELSE Undef

\* typeof v === 'object' && v !== null && !Array.isArray(v)
IsPlainObject(v) == v.t = "object"

\* JavaScript truthiness, as used by `if (x)` and `x && y`
Truthy(v) ==
    CASE v.t = "undefined" -> FALSE
      [] v.t = "null" -> FALSE
      [] v.t = "string" -> v.s # ""
      [] v.t = "number" -> v.n # 0
      [] v.t = "boolean" -> v.s = "true"
      [] OTHER -> TRUE

\* x ?? y
Coalesce(x, y) == IF x.t \in {"undefined", "null"} THEN y ELSE x

(***************************************************************************)
(* Time.  new Date(s).getTime() is an integer number of milliseconds since *)
(* the epoch, or NaN.  It is kept as whole days plus milliseconds within   *)
(* the day (getTime = day * MS_PER_DAY + ms) so that spans of more than 24 *)
(* days stay within the range of the checker's integers.                   *)
(***************************************************************************)
MAX_TIME_RANGE_DAYS == 30

MS_PER_DAY == 24 * 60 * 60 * 1000

NaN == [nan |-> TRUE, day |-> 0, ms |-> 0]

Time(d, m) == [nan |-> FALSE, day |-> d, ms |-> m]

\* new Date(s).getTime() for the timestamps of the model
DateParse(s) ==
    CASE s = "2024-02-01T00:00:00Z" -> Time(19754, 0)
      [] s = "2024-02-01T12:00:00Z" -> Time(19754, 12 * 60 * 60 * 1000)
      [] s = "2024-03-02T00:00:00Z" -> Time(19784, 0)
      [] s = "2024-03-02T00:00:00.001Z" -> Time(19784, 1)
      [] s = "2024-03-10T00:00:00Z" -> Time(19792, 0)
      [] OTHER -> NaN

\* a < b on two times that are not NaN
TimeLess(x, y) == x.day < y.day \/ (x.day = y.day /\ x.ms < y.ms)

\* end.getTime() - start.getTime(), for start < end, as whole days and milliseconds
TimeDiff(start, end) ==
    IF end.ms >= start.ms
    THEN [day |-> end.day - start.day, ms |-> end.ms - start.ms]
    ELSE [day |-> end.day - start.day - 1, ms |-> end.ms + MS_PER_DAY - start.ms]

\* ExceedsMaxRange with >= in place of >
ExceedsMaxRangeInclusive(diff) == diff.day >= MAX_TIME_RANGE_DAYS

\* diffDays > MAX_TIME_RANGE_DAYS where diffDays = diff / MS_PER_DAY
ExceedsMaxRange(diff) ==
    diff.day > MAX_TIME_RANGE_DAYS \/ (diff.day = MAX_TIME_RANGE_DAYS /\ diff.ms > 0)

\* diffDays.toFixed(1): the span rounded to one decimal, as <<integer part, tenths>>
ToFixed1(diff) ==
    LET tenths == (diff.ms * 10 + MS_PER_DAY \div 2) \div MS_PER_DAY
    IN  IF tenths = 10 THEN <<diff.day + 1, 0>> ELSE <<diff.day, tenths>>

(***************************************************************************)
(* Errors.  The message of an error is kept as the sequence of the parts   *)
(* its template literal concatenates.                                      *)
(***************************************************************************)
\* a literal part of a message, or an interpolated string
Txt(x) == [txt |-> x, num |-> <<>>]

\* an interpolated number, as the sequence of its integer and decimal parts
NumPart(ds) == [txt |-> "", num |-> ds]

NoError == [kind |-> "none", msg |-> <<>>]

Error(k, m) == [kind |-> k, msg |-> m]

\* validateTimeRange looking at the end timestamp before the start timestamp
validateTimeRangeEndFirst(startTime, endTime) ==
    LET start == DateParse(startTime)
        end == DateParse(endTime)
    IN  IF end.nan
        THEN Error("InvalidTimestamp",
                   <<Txt("Invalid end_time format: "), Txt(endTime),
                     Txt(". Use RFC3339 format (e.g., 2024-01-31T00:00:00Z)")>>)
        ELSE IF start.nan
        THEN Error("InvalidTimestamp",
                   <<Txt("Invalid start_time format: "), Txt(startTime),
                     Txt(". Use RFC3339 format (e.g., 2024-01-01T00:00:00Z)")>>)
        ELSE IF ~TimeLess(start, end)
        THEN Error("InvalidRange", <<Txt("start_time must be before end_time")>>)
        ELSE IF ExceedsMaxRange(TimeDiff(start, end))
        THEN Error("RangeTooLarge",
                   <<Txt("Time range cannot exceed "), NumPart(<<MAX_TIME_RANGE_DAYS>>),
                     Txt(" days. Requested: "), NumPart(ToFixed1(TimeDiff(start, end))),
                     Txt(" days. Try a shorter range like 28 days.")>>)
        ELSE NoError

\* validateTimeRange(startTime, endTime): the error it throws, NoError when it returns
validateTimeRange(startTime, endTime) ==
    LET start == DateParse(startTime)
        end == DateParse(endTime)
    IN  IF start.nan
        THEN Error("InvalidTimestamp",
                   <<Txt("Invalid start_time format: "), Txt(startTime),
                     Txt(". Use RFC3339 format (e.g., 2024-01-01T00:00:00Z)")>>)
        ELSE IF end.nan
        THEN Error("InvalidTimestamp",
                   <<Txt("Invalid end_time format: "), Txt(endTime),
                     Txt(". Use RFC3339 format (e.g., 2024-01-31T00:00:00Z)")>>)
        ELSE IF ~TimeLess(start, end)
        THEN Error("InvalidRange", <<Txt("start_time must be before end_time")>>)
        ELSE IF ExceedsMaxRange(TimeDiff(start, end))
        THEN Error("RangeTooLarge",
                   <<Txt("Time range cannot exceed "), NumPart(<<MAX_TIME_RANGE_DAYS>>),
                     Txt(" days. Requested: "), NumPart(ToFixed1(TimeDiff(start, end))),
                     Txt(" days. Try a shorter range like 28 days.")>>)
        ELSE NoError

\* ValidateField rethrowing the error of validateTimeRange as it is
ValidateFieldUnwrapped(fieldName, fieldValue) ==
    IF IsPlainObject(fieldValue) /\ Truthy(Get(fieldValue, "time_range"))
          /\ Truthy(Get(Get(fieldValue, "time_range"), "start"))
          /\ Truthy(Get(Get(fieldValue, "time_range"), "end"))
    THEN validateTimeRange(Get(Get(fieldValue, "time_range"), "start").s,
                           Get(Get(fieldValue, "time_range"), "end").s)
    ELSE NoError

\* the check validateFilterTimeRanges makes on one entry of the filter
ValidateField(fieldName, fieldValue) ==
    IF IsPlainObject(fieldValue) /\ Truthy(Get(fieldValue, "time_range"))
    THEN LET timeRange == Get(fieldValue, "time_range")
             start == Get(timeRange, "start")
             end == Get(timeRange, "end")
         IN  IF Truthy(start) /\ Truthy(end)
             THEN LET e == validateTimeRange(start.s, end.s)
                  IN  IF e.kind = "none" THEN NoError
                      ELSE Error(e.kind,
                                 <<Txt("Invalid time_range for "), Txt(fieldName), Txt(": ")>>
                                   \o e.msg)
             ELSE NoError
    ELSE NoError

RECURSIVE ValidateEntries(_)
\* the loop of validateFilterTimeRanges: the error of the first entry that fails
ValidateEntries(es) ==
    IF es = <<>> THEN NoError
    ELSE LET e == ValidateField(Head(es).k, Head(es).v)
         IN  IF e.kind # "none" THEN e ELSE ValidateEntries(Tail(es))

\* validateFilterTimeRanges(filter): the error it throws, NoError when it returns
validateFilterTimeRanges(filter) == ValidateEntries(filter.o)

(***************************************************************************)
(* The operator whitelist and cleanFilter.                                 *)
(***************************************************************************)
IdOperators == {"equals", "in", "not_in", "is_set", "is_unset"}

TimeOperators == {"time_is_after", "time_is_before", "time_range"}

VALID_OPERATORS ==
    [created_at |-> TimeOperators,
     resolved_at |-> TimeOperators,
     latest_message_activity_at |-> TimeOperators,
     title |-> {"string_contains", "string_does_not_contain"},
     id |-> {"equals", "in", "not_in"},
     account_id |-> IdOperators,
     requester_id |-> IdOperators,
     assignee_id |-> IdOperators,
     team_id |-> IdOperators,
     ticket_form_id |-> IdOperators,
     follower_user_id |-> {"equals", "in", "not_in"},
     follower_contact_id |-> {"equals", "in", "not_in"},
     state |-> {"equals", "in", "not_in"},
     issue_type |-> {"equals", "in", "not_in"},
     tags |-> {"contains", "does_not_contain", "in", "not_in"},
     domains |-> {"contains", "does_not_contain"},
     name |-> {"equals", "string_contains"},
     external_ids |-> IdOperators,
     email |-> {"equals", "string_contains", "in", "not_in"}]

\* VALID_OPERATORS is an object literal, so a lookup that misses its own keys
\* falls through to Object.prototype: these names yield a function, not a Set
ObjectPrototypeKeys ==
    {"constructor", "toString", "valueOf", "hasOwnProperty", "isPrototypeOf",
     "propertyIsEnumerable", "toLocaleString"}

\* VALID_OPERATORS[fieldName]
LookupValidOperators(fieldName) ==
    IF fieldName \in DOMAIN VALID_OPERATORS
    THEN [kind |-> "set", ops |-> VALID_OPERATORS[fieldName]]
    ELSE IF fieldName \in ObjectPrototypeKeys
    THEN [kind |-> "function", ops |-> {}]
    ELSE [kind |-> "undefined", ops |-> {}]

\* KeepOperator without the whitelist test
KeepOperatorAnyName(validOperators, opName, opValue) ==
    opValue.t \notin {"undefined", "null"}

\* validOperators.has(op) && opValue !== undefined && opValue !== null
KeepOperator(validOperators, opName, opValue) ==
    opName \in validOperators /\ opValue.t \notin {"undefined", "null"}

\* HasOperators testing the operators given instead of the operators kept
HasOperatorsRaw(fieldObj, cleanedOperators) == Len(fieldObj.o) > 0

\* Object.keys(cleanedOperators).length > 0, deciding whether a known field is kept
HasOperators(fieldObj, cleanedOperators) == Len(cleanedOperators) > 0

\* cleaned && Object.keys(cleaned).length > 0, deciding whether an unknown field is kept
KeepNested(cleaned) == Truthy(cleaned) /\ Len(cleaned.o) > 0

\* ReturnResult returning the result object even when it is empty
ReturnResultAlways(entries) == Obj(entries)

\* Object.keys(result).length > 0 ? result : undefined
ReturnResult(entries) == IF Len(entries) > 0 THEN Obj(entries) ELSE Undef

\* the outcome of a call: the value returned, or the error thrown
Ret(v) == [val |-> v, err |-> NoError]

Throw(e) == [val |-> Undef, err |-> e]

RECURSIVE CleanLoop(_, _)
\* the for-loop of cleanFilter over the entries not yet visited, with the
\* entries of `result` built so far; the loop calls cleanFilter on the value
\* of an unknown field
CleanLoop(es, acc) ==
    IF es = <<>> THEN Ret(ReturnResult(acc))
    ELSE LET fieldName == Head(es).k
             fieldValue == Head(es).v
         IN  IF fieldValue.t \in {"undefined", "null"}
             THEN CleanLoop(Tail(es), acc)
             ELSE IF fieldValue.t = "object"
             THEN LET validOperators == LookupValidOperators(fieldName)
                  IN  IF validOperators.kind = "set"
                      THEN LET cleanedOperators ==
                                   SelectSeq(fieldValue.o,
                                       LAMBDA e : KeepOperator(validOperators.ops, e.k, e.v))
                           IN  IF HasOperators(fieldValue, cleanedOperators)
                               THEN CleanLoop(Tail(es),
                                        Append(acc, Entry(fieldName, Obj(cleanedOperators))))
                               ELSE CleanLoop(Tail(es), acc)
                      ELSE IF validOperators.kind = "function"
                      THEN IF fieldValue.o # <<>>
                           THEN Throw(Error("TypeError",
                                    <<Txt("validOperators.has is not a function")>>))
                           ELSE CleanLoop(Tail(es), acc)
                      ELSE LET cleaned == CleanLoop(fieldValue.o, <<>>)
                           IN  IF cleaned.err.kind # "none" THEN cleaned
                               ELSE IF KeepNested(cleaned.val)
                               THEN CleanLoop(Tail(es),
                                        Append(acc, Entry(fieldName, cleaned.val)))
                               ELSE CleanLoop(Tail(es), acc)
             ELSE CleanLoop(Tail(es), Append(acc, Entry(fieldName, fieldValue)))

\* cleanFilter passing only the operator maps of obj to the loop
cleanFilterOperatorMapsOnly(obj) ==
    CleanLoop(SelectSeq(obj.o, LAMBDA e : e.v.t = "object"), <<>>)

\* cleanFilter(obj): the cleaned filter or undefined, or the error thrown
cleanFilter(obj) == CleanLoop(obj.o, <<>>)

(***************************************************************************)
(* Text.  A JavaScript string is a TLA+ string; s.length is Len(s), and    *)
(* s[i] is the one-character string CharAt(s, i + 1).                      *)
(***************************************************************************)
CharAt(s, i) == SubSeq(s, i, i)

\* the indices of the characters of s that are in chars
Positions(s, chars) == {i \in 1..Len(s) : CharAt(s, i) \in chars}

\* the least element of a non-empty set of indices
First(S) == CHOOSE i \in S : \A j \in S : i <= j

\* the characters the regular expression class \s matches
WhitespaceChars == {" ", "\n", "\t", "\r"}

\* x || y
Or(x, y) == IF Truthy(x) THEN x ELSE y

\* text.slice(0, end): a negative end counts from the end of the text
Slice(text, end) ==
    IF end >= 0
    THEN SubSeq(text, 1, IF end < Len(text) THEN end ELSE Len(text))
    ELSE SubSeq(text, 1, IF Len(text) + end > 0 THEN Len(text) + end ELSE 0)

RECURSIVE ReplaceTags(_)
\* html.replace(/<[^>]*>/g, ' '): the leftmost '<' that has a '>' after it
\* starts a match, which ends at the first such '>'
ReplaceTags(html) ==
    LET opens == Positions(html, {"<"})
    IN  IF opens = {} THEN html
        ELSE LET i == First(opens)
                 closes == {j \in Positions(html, {">"}) : j > i}
             IN  IF closes = {} THEN html
                 ELSE SubSeq(html, 1, i - 1) \o " "
                      \o ReplaceTags(SubSeq(html, First(closes) + 1, Len(html)))

RECURSIVE CollapseWhitespace(_)
\* text.replace(/\s+/g, ' ')
CollapseWhitespace(text) ==
    LET spaces == Positions(text, WhitespaceChars)
    IN  IF spaces = {} THEN text
        ELSE LET i == First(spaces)
                 rest == {j \in (i + 1)..Len(text) : CharAt(text, j) \notin WhitespaceChars}
             IN  SubSeq(text, 1, i - 1) \o " "
                 \o (IF rest = {} THEN ""
                     ELSE CollapseWhitespace(SubSeq(text, First(rest), Len(text))))

RECURSIVE TrimStart(_)
TrimStart(text) ==
    IF text # "" /\ CharAt(text, 1) \in WhitespaceChars
    THEN TrimStart(SubSeq(text, 2, Len(text))) ELSE text

RECURSIVE TrimEnd(_)
TrimEnd(text) ==
    IF text # "" /\ CharAt(text, Len(text)) \in WhitespaceChars
    THEN TrimEnd(SubSeq(text, 1, Len(text) - 1)) ELSE text

\* text.trim()
Trim(text) == TrimEnd(TrimStart(text))

\* html.replace(/<[^>]*>/g, ' ').replace(/\s+/g, ' ').trim()
StripHtml(html) == Trim(CollapseWhitespace(ReplaceTags(html)))

RECURSIVE ReplaceChar(_, _, _)
\* value.replace(/c/g, by) for a one-character pattern c
ReplaceChar(value, c, by) ==
    LET at == Positions(value, {c})
    IN  IF at = {} THEN value
        ELSE SubSeq(value, 1, First(at) - 1) \o by
             \o ReplaceChar(SubSeq(value, First(at) + 1, Len(value)), c, by)

RECURSIVE Repeat(_, _)
\* s.repeat(n)
Repeat(s, n) ==
    IF n = 0 THEN ""
    ELSE LET half == Repeat(s, n \div 2)
         IN  half \o half \o (IF n % 2 = 1 THEN s ELSE "")

(***************************************************************************)
(* PylonClient: the requests its methods issue.                            *)
(***************************************************************************)
\* the application/x-www-form-urlencoded form of one character
EncodeChar(c) ==
    CASE c = ":" -> "%3A"
      [] c = " " -> "+"
      [] c = "+" -> "%2B"
      [] c = "%" -> "%25"
      [] c = "=" -> "%3D"
      [] c = "&" -> "%26"
      [] c = "/" -> "%2F"
      [] c = "|" -> "%7C"
      [] OTHER -> c

RECURSIVE UrlEncode(_)
\* URLSearchParams.toString() percent-encodes a value: ':' becomes %3A
UrlEncode(x) ==
    IF x = "" THEN "" ELSE EncodeChar(CharAt(x, 1)) \o UrlEncode(SubSeq(x, 2, Len(x)))

\* limit.toString(): the decimal digits of a non-negative integer
RECURSIVE NumToString(_)
NumToString(k) ==
    LET digit == SubSeq("0123456789", (k % 10) + 1, (k % 10) + 1)
    IN  IF k < 10 THEN digit ELSE NumToString(k \div 10) \o digit

\* the pagination parameters of a call: `if (params?.limit)` and
\* `if (params?.cursor)` add a parameter only for a truthy value
PaginationQuery(params) ==
    (IF Truthy(params.limit)
     THEN <<Entry("limit", NumToString(params.limit.n))>> ELSE <<>>)
    \o (IF Truthy(params.cursor)
        THEN <<Entry("cursor", UrlEncode(params.cursor.s))>> ELSE <<>>)

\* JSON.stringify(body) of an object literal: a property whose value is undefined is omitted
JsonBody(entries) == Obj(SelectSeq(entries, LAMBDA e : e.v.t # "undefined"))

\* the arguments request() hands to fetch
Request(method, path, query, body) ==
    [method |-> method, path |-> path, query |-> query, body |-> body]

\* the body of a search request: { filter: cleanedFilter ?? {}, limit, cursor }
SearchBody(cleanedFilter, params) ==
    JsonBody(<<Entry("filter", Coalesce(cleanedFilter, Obj(<<>>))),
               Entry("limit", params.limit),
               Entry("cursor", params.cursor)>>)

\* the outcome of the synchronous part of a client method, up to its call of
\* fetch: the error thrown, or the request issued
Fail(e) == [err |-> e, req |-> <<>>]

Send(r) == [err |-> NoError, req |-> <<r>>]

\* searchAccounts(filter, params) and searchContacts(filter, params), which
\* differ in the path only
SearchPlain(path, filter, params) ==
    LET cleanedFilter == cleanFilter(filter)
    IN  IF cleanedFilter.err.kind # "none" THEN Fail(cleanedFilter.err)
        ELSE Send(Request("POST", path, <<>>, SearchBody(cleanedFilter.val, params)))

searchAccounts(filter, params) == SearchPlain("/accounts/search", filter, params)

searchContacts(filter, params) == SearchPlain("/contacts/search", filter, params)

\* searchIssues validating the time ranges of the cleaned filter
searchIssuesCleanFirst(filter, params) ==
    LET cleanedFilter == cleanFilter(filter)
        invalid == validateFilterTimeRanges(Coalesce(cleanedFilter.val, Obj(<<>>)))
    IN  IF cleanedFilter.err.kind # "none" THEN Fail(cleanedFilter.err)
        ELSE IF invalid.kind # "none" THEN Fail(invalid)
        ELSE Send(Request("POST", "/issues/search", <<>>,
                          SearchBody(cleanedFilter.val, params)))

\* searchIssues(filter, params)
searchIssues(filter, params) ==
    LET invalid == validateFilterTimeRanges(filter)
        cleanedFilter == cleanFilter(filter)
    IN  IF invalid.kind # "none" THEN Fail(invalid)
        ELSE IF cleanedFilter.err.kind # "none" THEN Fail(cleanedFilter.err)
        ELSE Send(Request("POST", "/issues/search", <<>>,
                          SearchBody(cleanedFilter.val, params)))

\* listIssues issuing its request before it validates the range
listIssuesRequestFirst(startTime, endTime, params) ==
    [err |-> validateTimeRange(startTime, endTime),
     req |-> <<Request("GET", "/issues",
                       <<Entry("start_time", UrlEncode(startTime)),
                         Entry("end_time", UrlEncode(endTime))>>
                       \o PaginationQuery(params),
                       Undef)>>]

\* listIssues(startTime, endTime, params)
listIssues(startTime, endTime, params) ==
    LET invalid == validateTimeRange(startTime, endTime)
    IN  IF invalid.kind # "none" THEN Fail(invalid)
        ELSE Send(Request("GET", "/issues",
                          <<Entry("start_time", UrlEncode(startTime)),
                            Entry("end_time", UrlEncode(endTime))>>
                          \o PaginationQuery(params),
                          Undef))

\* request() returning the body of a failed response instead of throwing
HandleResponseSwallowed(response) == Ret(response.json)

\* request(): what the method does with the response of fetch
HandleResponse(response) ==
    IF ~response.ok
    THEN Throw(Error("Transport",
                 <<Txt("Pylon API error: "), NumPart(<<response.status>>), Txt(" "),
                   Txt(response.statusText), Txt(" - "), Txt(response.text)>>))
    ELSE Ret(response.json)

(***************************************************************************)
(* The response projector (schemas.ts).  A view is the object its object   *)
(* literal builds: every field of the literal is an entry, with the value  *)
(* undefined when the raw record has none.                                 *)
(***************************************************************************)
\* relation?.id
OptionalId(relation) ==
    IF relation.t \in {"undefined", "null"} THEN Undef ELSE Get(relation, "id")

\* extractAccountId reading the flat field only
extractAccountIdFlatOnly(issue) ==
    IF Get(issue, "account_id").t = "string" THEN Get(issue, "account_id") ELSE Undef

extractAccountId(issue) ==
    IF Get(issue, "account_id").t = "string"
    THEN Get(issue, "account_id")
    ELSE OptionalId(Get(issue, "account"))

extractAssigneeId(issue) ==
    IF Get(issue, "assignee_id").t = "string"
    THEN Get(issue, "assignee_id")
    ELSE Coalesce(OptionalId(Get(issue, "assignee")), Null)

extractRequesterId(issue) ==
    IF Get(issue, "requester_id").t = "string"
    THEN Get(issue, "requester_id")
    ELSE Coalesce(OptionalId(Get(issue, "requester")), Null)

extractTeamId(issue) ==
    IF Get(issue, "team_id").t = "string"
    THEN Get(issue, "team_id")
    ELSE Coalesce(OptionalId(Get(issue, "team")), Null)

toIssueMinimal(raw) ==
    Obj(<<Entry("id", Get(raw, "id")),
          Entry("number", Get(raw, "number")),
          Entry("title", Get(raw, "title")),
          Entry("state", Get(raw, "state")),
          Entry("link", Get(raw, "link")),
          Entry("created_at", Get(raw, "created_at")),
          Entry("assignee_id", extractAssigneeId(raw)),
          Entry("account_id", extractAccountId(raw)),
          Entry("tags", Get(raw, "tags"))>>)

toIssueStandard(raw) ==
    Obj(toIssueMinimal(raw).o
        \o <<Entry("requester_id", extractRequesterId(raw)),
             Entry("team_id", extractTeamId(raw)),
             Entry("resolution_time", Get(raw, "resolution_time")),
             Entry("latest_message_time", Get(raw, "latest_message_time")),
             Entry("first_response_time", Get(raw, "first_response_time")),
             Entry("customer_portal_visible", Get(raw, "customer_portal_visible")),
             Entry("source", Get(raw, "source")),
             Entry("type", Get(raw, "type"))>>)

\* owner?.id ?? raw['owner_id']
AccountOwnerId(raw) ==
    Coalesce(OptionalId(Get(raw, "owner")), Get(raw, "owner_id"))

toAccountMinimal(raw) ==
    Obj(<<Entry("id", Get(raw, "id")),
          Entry("name", Get(raw, "name")),
          Entry("primary_domain", Get(raw, "primary_domain")),
          Entry("owner_id", AccountOwnerId(raw)),
          Entry("tags", Get(raw, "tags"))>>)

toAccountStandard(raw) ==
    Obj(toAccountMinimal(raw).o
        \o <<Entry("domains", Get(raw, "domains")),
             Entry("created_at", Get(raw, "created_at")),
             Entry("type", Get(raw, "type"))>>)

\* account?.id ?? raw['account_id']
ContactAccountId(raw) ==
    Coalesce(OptionalId(Get(raw, "account")), Get(raw, "account_id"))

toContactMinimal(raw) ==
    Obj(<<Entry("id", Get(raw, "id")),
          Entry("name", Get(raw, "name")),
          Entry("email", Get(raw, "email")),
          Entry("account_id", ContactAccountId(raw)),
          Entry("portal_role", Get(raw, "portal_role"))>>)

toContactStandard(raw) ==
    Obj(toContactMinimal(raw).o
        \o <<Entry("emails", Get(raw, "emails")),
             Entry("avatar_url", Get(raw, "avatar_url")),
             Entry("created_at", Get(raw, "created_at"))>>)

\* the projection functions by name
Project(fn, raw) ==
    CASE fn = "toIssueMinimal" -> toIssueMinimal(raw)
      [] fn = "toIssueStandard" -> toIssueStandard(raw)
      [] fn = "toAccountMinimal" -> toAccountMinimal(raw)
      [] fn = "toAccountStandard" -> toAccountStandard(raw)
      [] fn = "toContactMinimal" -> toContactMinimal(raw)
      [] fn = "toContactStandard" -> toContactStandard(raw)

(***************************************************************************)
(* The inputs of the model.                                                *)
(***************************************************************************)
\* the most operators in one operator map
MaxOps == 2

\* the most fields in one filter
MaxFields == 2

\* the most relations (flat and nested identifier) one raw record carries
MaxRelations == 2

RECURSIVE Assignments(_, _, _)
\* the entry sequences that give a value of ValuesOf[k] to at most n of the
\* keys of the sequence `order`, in that order
Assignments(order, ValuesOf, n) ==
    IF order = <<>> \/ n = 0 THEN {<<>>}
    ELSE LET rest == Assignments(Tail(order), ValuesOf, n - 1)
         IN  Assignments(Tail(order), ValuesOf, n)
             \cup {<<Entry(Head(order), v)>> \o r : v \in ValuesOf[Head(order)], r \in rest}

RECURSIVE Reverse(_)
Reverse(q) == IF q = <<>> THEN <<>> ELSE Append(Reverse(Tail(q)), Head(q))

TimeStrings ==
    {"2024-02-01T00:00:00Z", "2024-02-01T12:00:00Z", "2024-03-02T00:00:00Z",
     "2024-03-02T00:00:00.001Z", "2024-03-10T00:00:00Z", "yesterday", ""}

TimeRange(start, end) == Obj(<<Entry("start", Str(start)), Entry("end", Str(end))>>)

\* the operands of time_range in the filters of the model
FilterTimeRanges ==
    {TimeRange("2024-02-01T00:00:00Z", e) :
        e \in {"2024-03-02T00:00:00Z", "2024-03-02T00:00:00.001Z",
               "2024-03-10T00:00:00Z", "yesterday", ""}}
    \cup {TimeRange("2024-03-10T00:00:00Z", "2024-02-01T00:00:00Z"),
          TimeRange("yesterday", "2024-03-10T00:00:00Z"),
          Obj(<<Entry("start", Str("2024-02-01T00:00:00Z"))>>),
          Obj(<<Entry("start", Str("2024-02-01T00:00:00Z")), Entry("end", Null)>>)}

\* two operators of the whitelist of "state" and a hallucinated one
OperatorNames == <<"equals", "in", "gte">>

OperandValues == {Null, Str("new")}

\* operator maps over OperatorNames, valid and hallucinated operators mixed
OperatorMaps ==
    {Obj(es) : es \in Assignments(OperatorNames,
                                  [k \in {"equals", "in", "gte"} |-> OperandValues],
                                  MaxOps)}

FieldNames == <<"state", "title", "created_at", "custom", "constructor">>

\* the values each field takes: "state", "title" and "created_at" are in the
\* whitelist, "custom" is not, "constructor" is a name of Object.prototype
FieldValues ==
    [created_at |-> {Obj(<<Entry("time_range", r)>>) : r \in FilterTimeRanges},
     title |-> {Obj(<<Entry("string_contains", Str("bug"))>>),
                Obj(<<Entry("gte", Str("bug"))>>),
                Obj(<<Entry("time_range",
                    TimeRange("2024-02-01T00:00:00Z", "2024-03-10T00:00:00Z"))>>),
                Str("bug")},
     state |-> {Null, Str("new"), Arr(<<Str("new"), Str("open")>>),
                Obj(<<Entry("equals", Obj(<<>>))>>),
                Obj(<<Entry("gte", Str("new")), Entry("time_range", Str("new"))>>)}
               \cup OperatorMaps,
     custom |-> {Obj(<<>>),
                 Obj(<<Entry("inner", Null)>>),
                 Obj(<<Entry("inner", Obj(<<>>)), Entry("other", Str("x"))>>),
                 Obj(<<Entry("equals", Str("x"))>>),
                 Obj(<<Entry("state", Obj(<<Entry("gte", Str("new"))>>))>>),
                 Obj(<<Entry("state", Obj(<<Entry("equals", Str("new")),
                                            Entry("gte", Str("new"))>>))>>),
                 Obj(<<Entry("created_at", Obj(<<Entry("time_range",
                     TimeRange("2024-02-01T00:00:00Z", "2024-03-10T00:00:00Z"))>>))>>),
                 Obj(<<Entry("created_at", Obj(<<Entry("time_range",
                     TimeRange("2024-02-01T00:00:00Z", "2024-03-02T00:00:00Z"))>>))>>),
                 Obj(<<Entry("time_range",
                     TimeRange("2024-02-01T00:00:00Z", "2024-03-10T00:00:00Z"))>>),
                 Obj(<<Entry("constructor", Obj(<<Entry("equals", Str("x"))>>))>>)},
     constructor |-> {Str("x"), Obj(<<>>), Obj(<<Entry("equals", Str("x"))>>)}]

\* the filters of the model: at most MaxFields fields, in the order of
\* FieldNames or in the reverse order
Filters ==
    LET base == Assignments(FieldNames, FieldValues, MaxFields)
    IN  {Obj(es) : es \in base} \cup {Obj(Reverse(es)) : es \in base}

NoParams == [limit |-> Undef, cursor |-> Undef]

ParamsSet == {NoParams, [limit |-> Num(25), cursor |-> Str("a:b")]}

\* the responses of the remote API
Responses ==
    {[ok |-> TRUE, status |-> 200, statusText |-> "OK", text |-> "",
      json |-> Obj(<<Entry("data", Arr(<<>>)),
                     Entry("pagination", Obj(<<Entry("cursor", Null),
                                               Entry("has_next_page", Bool(FALSE))>>)),
                     Entry("request_id", Str("r1"))>>)],
     [ok |-> FALSE, status |-> 500, statusText |-> "Internal Server Error",
      text |-> "boom", json |-> Undef]}

\* a flat identifier field of a raw record; undefined stands for an absent field
FlatIds == {Undef, Null, Str("A1"), Num(7)}

\* a nested relation object of a raw record; undefined stands for an absent field
NestedRelations ==
    {Undef, Null, Obj(<<>>),
     Obj(<<Entry("id", Str("A1")), Entry("name", Str("n"))>>),
     Obj(<<Entry("id", Str("A2"))>>)}

\* the entries a raw record carries for one relation
RelationEntries(relation, flat, nested) ==
    (IF flat = Undef THEN <<>> ELSE <<Entry(relation \o "_id", flat)>>)
    \o (IF nested = Undef THEN <<>> ELSE <<Entry(relation, nested)>>)

RECURSIVE RelationChoices(_, _)
\* the entries for at most n of the relations of the sequence
RelationChoices(relations, n) ==
    IF relations = <<>> \/ n = 0 THEN {<<>>}
    ELSE LET rest == RelationChoices(Tail(relations), n - 1)
         IN  RelationChoices(Tail(relations), n)
             \cup {RelationEntries(Head(relations), f, o) \o r :
                      f \in FlatIds, o \in NestedRelations, r \in rest}

RawIssues ==
    {Obj(<<Entry("id", Str("I1")), Entry("title", Str("Bug")), Entry("state", Str("new"))>>
         \o r) :
        r \in RelationChoices(<<"account", "assignee", "requester", "team">>, MaxRelations)}

RawAccounts ==
    {Obj(<<Entry("id", Str("AC1")), Entry("name", Str("Acme"))>> \o r) :
        r \in RelationChoices(<<"owner">>, MaxRelations)}

RawContacts ==
    {Obj(<<Entry("id", Str("CO1")), Entry("name", Str("Ann"))>> \o r) :
        r \in RelationChoices(<<"account">>, MaxRelations)}

\* the raw records each projection function is applied to
RawRecordsOf(fn) ==
    CASE fn \in {"toIssueMinimal", "toIssueStandard"} -> RawIssues
      [] fn \in {"toAccountMinimal", "toAccountStandard"} -> RawAccounts
      [] fn \in {"toContactMinimal", "toContactStandard"} -> RawContacts

ProjectionNames ==
    {"toIssueMinimal", "toIssueStandard", "toAccountMinimal", "toAccountStandard",
     "toContactMinimal", "toContactStandard"}

(***************************************************************************)
(* The state machine.                                                      *)
(***************************************************************************)
NoArg ==
    [startTime |-> "", endTime |-> "", filter |-> Undef, params |-> NoParams,
     raw |-> Undef, fn |-> ""]

\* no response received
NoResponse == [ok |-> FALSE, status |-> 0, statusText |-> "", text |-> "", json |-> Undef]

\* no object passed yet, no view constructed
NoObjects == [filter |-> Undef, raw |-> Undef, views |-> 0]

\* the object literals a projection function evaluates: its own, and those
\* of the functions whose result it spreads
ViewsBuilt(fn) ==
    CASE fn \in {"toIssueMinimal", "toAccountMinimal", "toContactMinimal",
                 "toTeamMinimal"} -> 1
      [] fn \in {"toIssueStandard", "toAccountStandard", "toContactStandard",
                 "toTeamStandard"} -> 2
      [] fn = "toIssueFull" -> 3

\* AfterCall for a cleanFilter that deletes the dropped fields from obj itself
AfterCallCleanedInPlace(h, o, a) ==
    CASE o \in {"cleanFilter", "searchIssues", "searchAccounts", "searchContacts"} ->
            [filter |-> Coalesce(cleanFilter(a.filter).val, Obj(<<>>)),
             raw |-> h.raw, views |-> h.views]
      [] o \in ProjectionNames \cup {"toIssueFull", "toTeamMinimal", "toTeamStandard"} ->
            [filter |-> h.filter, raw |-> a.raw, views |-> h.views + ViewsBuilt(o)]
      [] OTHER -> h

\* the heap after the call o(a): cleanFilter and validateFilterTimeRanges
\* read obj and assign to their locals result and cleanedOperators only; a
\* projection function reads raw and returns a new object literal
AfterCall(h, o, a) ==
    CASE o \in {"cleanFilter", "searchIssues", "searchAccounts", "searchContacts"} ->
            [filter |-> a.filter, raw |-> h.raw, views |-> h.views]
      [] o \in ProjectionNames \cup {"toIssueFull", "toTeamMinimal", "toTeamStandard"} ->
            [filter |-> h.filter, raw |-> a.raw, views |-> h.views + ViewsBuilt(o)]
      [] OTHER -> h

Init ==
    /\ op = "none"
    /\ arg = NoArg
    /\ phase = "idle"
    /\ sent = <<>>
    /\ result = Ret(Undef)
    /\ chained = FALSE
    /\ received = NoResponse
    /\ whitelist = VALID_OPERATORS
    /\ heap = NoObjects

\* a call that runs to completion without suspending
Finish(o, a, r, c) ==
    /\ op' = o
    /\ arg' = a
    /\ sent' = <<>>
    /\ result' = r
    /\ phase' = IF r.err.kind = "none" THEN "returned" ELSE "thrown"
    /\ chained' = c
    /\ heap' = AfterCall(heap, o, a)
    /\ UNCHANGED <<received, whitelist>>

\* a call of a client method: it throws before fetch, or issues its request
\* and suspends
Invoke(o, a, out) ==
    /\ op' = o
    /\ arg' = a
    /\ sent' = out.req
    /\ result' = IF out.err.kind = "none" THEN Ret(Undef) ELSE Throw(out.err)
    /\ phase' = IF out.err.kind = "none" THEN "awaiting" ELSE "thrown"
    /\ chained' = FALSE
    /\ heap' = AfterCall(heap, o, a)
    /\ UNCHANGED <<received, whitelist>>

CallCleanFilter ==
    /\ phase = "idle"
    /\ \E f \in Filters :
        Finish("cleanFilter", [NoArg EXCEPT !.filter = f], cleanFilter(f), FALSE)

\* cleanFilter applied to the filter the previous cleanFilter call returned
CallCleanFilterAgain ==
    /\ op = "cleanFilter"
    /\ phase = "returned"
    /\ ~chained
    /\ result.val.t = "object"
    /\ Finish("cleanFilter", [NoArg EXCEPT !.filter = result.val],
              cleanFilter(result.val), TRUE)

CallValidateTimeRange ==
    /\ phase = "idle"
    /\ \E s \in TimeStrings, e \in TimeStrings :
        LET invalid == validateTimeRange(s, e)
        IN  Finish("validateTimeRange", [NoArg EXCEPT !.startTime = s, !.endTime = e],
                   IF invalid.kind = "none" THEN Ret(Undef) ELSE Throw(invalid), FALSE)

CallListIssues ==
    /\ phase = "idle"
    /\ \E s \in TimeStrings, e \in TimeStrings, p \in ParamsSet :
        Invoke("listIssues",
               [NoArg EXCEPT !.startTime = s, !.endTime = e, !.params = p],
               listIssues(s, e, p))

CallSearchIssues ==
    /\ phase = "idle"
    /\ \E f \in Filters, p \in ParamsSet :
        Invoke("searchIssues", [NoArg EXCEPT !.filter = f, !.params = p],
               searchIssues(f, p))

CallSearchAccounts ==
    /\ phase = "idle"
    /\ \E f \in Filters, p \in ParamsSet :
        Invoke("searchAccounts", [NoArg EXCEPT !.filter = f, !.params = p],
               searchAccounts(f, p))

CallSearchContacts ==
    /\ phase = "idle"
    /\ \E f \in Filters, p \in ParamsSet :
        Invoke("searchContacts", [NoArg EXCEPT !.filter = f, !.params = p],
               searchContacts(f, p))

\* fetch completes and request() returns the parsed body or throws
Respond ==
    /\ phase = "awaiting"
    /\ \E r \in Responses :
        /\ result' = HandleResponse(r)
        /\ phase' = IF r.ok THEN "returned" ELSE "thrown"
        /\ received' = r
    /\ UNCHANGED <<op, arg, sent, chained, whitelist, heap>>

CallProject ==
    /\ phase = "idle"
    /\ \E fn \in ProjectionNames :
        \E raw \in RawRecordsOf(fn) :
            Finish(fn, [NoArg EXCEPT !.fn = fn, !.raw = raw], Ret(Project(fn, raw)), FALSE)

Next ==
    \/ CallCleanFilter
    \/ CallCleanFilterAgain
    \/ CallValidateTimeRange
    \/ CallListIssues
    \/ CallSearchIssues
    \/ CallSearchAccounts
    \/ CallSearchContacts
    \/ Respond
    \/ CallProject

Spec == Init /\ [][Next]_vars

(***************************************************************************)
(* Properties of the filter sanitizer.                                     *)
(***************************************************************************)
\* the filter a call has cleaned: the value cleanFilter returned, or the
\* filter of the search request issued
IsSearch == op \in {"searchIssues", "searchAccounts", "searchContacts"}

HasCleaned ==
    \/ op = "cleanFilter" /\ phase = "returned"
    \/ IsSearch /\ sent # <<>>

Cleaned ==
    IF op = "cleanFilter" THEN result.val ELSE Get(sent[1].body, "filter")

\* C1: after cleaning, for every field k of the whitelist whose value in the
\* filter is an operator map, every operator that remains under k is in the
\* whitelist of k.
C1_OnlyWhitelistedOperators ==
    HasCleaned =>
        \A k \in DOMAIN VALID_OPERATORS :
            IsPlainObject(Get(arg.filter, k)) =>
                Keys(Get(Cleaned, k)) \subseteq VALID_OPERATORS[k]

\* a hallucinated operator was dropped from a field that keeps a valid one
C1_Witness ==
    /\ op = "cleanFilter"
    /\ phase = "returned"
    /\ Keys(Get(arg.filter, "state")) = {"equals", "gte"}
    /\ Keys(Get(result.val, "state")) = {"equals"}

\* the operators of the operator map v that the whitelist of k accepts with
\* an operand that is not null
SurvivingOperators(k, v) ==
    {e \in {v.o[i] : i \in 1..Len(v.o)} :
        e.k \in VALID_OPERATORS[k] /\ e.v.t # "null"}

RECURSIVE HasEmptyField(_)
\* some field of the filter v, or of a nested filter under a field that is
\* not in the whitelist, maps to an empty object
HasEmptyField(v) ==
    \E i \in 1..Len(v.o) :
        \/ v.o[i].v = Obj(<<>>)
        \/ /\ v.o[i].v.t = "object"
           /\ LookupValidOperators(v.o[i].k).kind = "undefined"
           /\ HasEmptyField(v.o[i].v)

ExampleFilter ==
    Obj(<<Entry("title", Obj(<<Entry("string_contains", Str("bug"))>>)),
          Entry("state", Obj(<<Entry("gte", Str("new"))>>))>>)

ExampleCleaned ==
    Obj(<<Entry("title", Obj(<<Entry("string_contains", Str("bug"))>>))>>)

\* C2: cleanFilter returns no field that maps to an empty operator map: a
\* field of the whitelist is kept exactly when one of its operators survives,
\* the other fields of the example are kept, and the result is undefined,
\* never the empty object, when no field is left.
C2_NoEmptyOperatorMap ==
    (op = "cleanFilter" /\ phase = "returned") =>
        /\ result.val # Obj(<<>>)
        /\ ~HasEmptyField(result.val)
        /\ \A k \in DOMAIN VALID_OPERATORS :
               IsPlainObject(Get(arg.filter, k)) =>
                   (k \in Keys(result.val)
                       <=> SurvivingOperators(k, Get(arg.filter, k)) # {})
        /\ (arg.filter = ExampleFilter => result.val = ExampleCleaned)
        /\ ((\A i \in 1..Len(arg.filter.o) :
                 /\ arg.filter.o[i].k \in DOMAIN VALID_OPERATORS
                 /\ IsPlainObject(arg.filter.o[i].v)
                 /\ SurvivingOperators(arg.filter.o[i].k, arg.filter.o[i].v) = {})
             => result.val = Undef)

\* every field of a filter with fields was eliminated and undefined returned
C2_Witness ==
    /\ op = "cleanFilter"
    /\ phase = "returned"
    /\ Keys(arg.filter) = {"state", "title"}
    /\ Keys(Get(arg.filter, "state")) = {"gte", "time_range"}
    /\ Keys(Get(arg.filter, "title")) = {"gte"}
    /\ result.val = Undef

\* C3: cleanFilter is idempotent: applied to a filter that cleanFilter
\* returned, it returns that filter unchanged.
C3_Idempotent ==
    (op = "cleanFilter" /\ chained) =>
        /\ phase = "returned"
        /\ result.val = arg.filter

\* a cleaned filter with a nested field outside the whitelist was cleaned again
C3_Witness ==
    /\ op = "cleanFilter"
    /\ chained
    /\ Keys(arg.filter) = {"state", "custom"}
    /\ Keys(Get(arg.filter, "custom")) = {"state"}
    /\ result.val = arg.filter

\* C4: for two parseable timestamps, validateTimeRange returns when
\* start < end and the span is at most 30 days (exactly 30 days included),
\* throws the range-too-large error when the span exceeds 30 days and the
\* invalid-range error when start >= end; listIssues sends the two
\* timestamps it was given, never a corrected range.
C4_ValidateTimeRange ==
    (op \in {"validateTimeRange", "listIssues"}
        /\ ~DateParse(arg.startTime).nan /\ ~DateParse(arg.endTime).nan) =>
        LET start == DateParse(arg.startTime)
            end == DateParse(arg.endTime)
            before == start.day < end.day \/ (start.day = end.day /\ start.ms < end.ms)
            within == \/ end.day - start.day < 30
                      \/ end.day - start.day = 30 /\ end.ms <= start.ms
            succeeded == IF op = "listIssues" THEN Len(sent) = 1 ELSE phase = "returned"
        IN  /\ (before /\ within) => succeeded
            /\ (before /\ ~within) =>
                   (phase = "thrown" /\ result.err.kind = "RangeTooLarge")
            /\ ~before => (phase = "thrown" /\ result.err.kind = "InvalidRange")
            /\ (op = "listIssues" /\ sent # <<>>) =>
                   /\ sent[1].query[1] = Entry("start_time", UrlEncode(arg.startTime))
                   /\ sent[1].query[2] = Entry("end_time", UrlEncode(arg.endTime))

\* a span of exactly 30 days was accepted
C4_Witness ==
    /\ op = "validateTimeRange"
    /\ arg.startTime = "2024-02-01T00:00:00Z"
    /\ arg.endTime = "2024-03-02T00:00:00Z"
    /\ phase = "returned"

\* the time-range validation of the current call of listIssues or searchIssues fails
ValidationFails ==
    \/ op = "listIssues" /\ validateTimeRange(arg.startTime, arg.endTime).kind # "none"
    \/ op = "searchIssues" /\ validateFilterTimeRanges(arg.filter).kind # "none"

\* C5: an invocation of listIssues or searchIssues whose time-range
\* validation fails throws the validation error and issues no HTTP request;
\* listIssues over the 38 days from 2024-02-01 to 2024-03-10 throws the
\* range-too-large error.
C5_NoRequestAfterFailedValidation ==
    /\ ValidationFails =>
           /\ sent = <<>>
           /\ phase = "thrown"
           /\ result.err.kind \in {"InvalidTimestamp", "InvalidRange", "RangeTooLarge"}
    /\ (op = "listIssues" /\ arg.startTime = "2024-02-01T00:00:00Z"
            /\ arg.endTime = "2024-03-10T00:00:00Z") =>
           (result.err.kind = "RangeTooLarge" /\ sent = <<>>)

\* listIssues over a 38-day window threw and sent nothing
C5_Witness ==
    /\ op = "listIssues"
    /\ arg.startTime = "2024-02-01T00:00:00Z"
    /\ arg.endTime = "2024-03-10T00:00:00Z"
    /\ phase = "thrown"
    /\ result.err.kind = "RangeTooLarge"
    /\ sent = <<>>

\* a time_range operand whose two bounds are parseable timestamps
HasBothBounds(tr) ==
    /\ Get(tr, "start").t = "string" /\ ~DateParse(Get(tr, "start").s).nan
    /\ Get(tr, "end").t = "string" /\ ~DateParse(Get(tr, "end").s).nan

\* start < end and end - start <= 30 days, for an operand with both bounds
SatisfiesTimeRangeInvariant(tr) ==
    LET start == DateParse(Get(tr, "start").s)
        end == DateParse(Get(tr, "end").s)
    IN  /\ start.day < end.day \/ (start.day = end.day /\ start.ms < end.ms)
        /\ \/ end.day - start.day < 30
           \/ end.day - start.day = 30 /\ end.ms <= start.ms

\* the time_range operands of the top-level fields of a filter
TopLevelTimeRanges(filter) ==
    {Get(filter.o[i].v, "time_range") : i \in 1..Len(filter.o)} \ {Undef}

RECURSIVE TimeRangesIn(_)
\* the time_range operands at any nesting depth of a filter
TimeRangesIn(v) ==
    UNION {(IF v.o[i].k = "time_range" THEN {v.o[i].v} ELSE {})
           \cup (IF v.o[i].v.t = "object" THEN TimeRangesIn(v.o[i].v) ELSE {}) :
           i \in 1..Len(v.o)}

\* C6: every search operation validates the time ranges of its filter: a
\* filter with a time_range that has both bounds and violates start < end
\* or the 30-day cap makes searchIssues, searchAccounts and searchContacts
\* fail before any request is sent.
C6_SearchAlwaysValidatesTimeRanges ==
    (IsSearch /\ \E tr \in TopLevelTimeRanges(arg.filter) :
                    HasBothBounds(tr) /\ ~SatisfiesTimeRangeInvariant(tr)) =>
        (sent = <<>> /\ phase = "thrown")

\* C7: in a filter transmitted by searchIssues, every time_range operand
\* with both bounds, at any nesting depth, has start < end and a span of at
\* most 30 days.
C7_TransmittedTimeRangesValid ==
    (op = "searchIssues" /\ sent # <<>>) =>
        \A tr \in TimeRangesIn(Get(sent[1].body, "filter")) :
            HasBothBounds(tr) => SatisfiesTimeRangeInvariant(tr)

\* C8: cleanFilter never fails: it returns a filter or undefined for every
\* filter, and no search fails because of the operators or fields of its
\* filter.
C8_CleanFilterNeverFails ==
    /\ op = "cleanFilter" =>
           (phase = "returned" /\ result.val.t \in {"object", "undefined"})
    /\ IsSearch => result.err.kind # "TypeError"

(***************************************************************************)
(* Properties of the response projector.                                   *)
(***************************************************************************)
\* the relations whose identifier the view of a projection function carries
RelationsOf(fn) ==
    CASE fn = "toIssueMinimal" -> {"account", "assignee"}
      [] fn = "toIssueStandard" -> {"account", "assignee", "requester", "team"}
      [] fn \in {"toAccountMinimal", "toAccountStandard"} -> {"owner"}
      [] fn \in {"toContactMinimal", "toContactStandard"} -> {"account"}

\* C9: in every projection the identifier of a relation is the flat field
\* when that field is a string, even when a nested object with another id is
\* present; otherwise the id of the nested object; otherwise absent or null.
C9_FlatIdentifierPreferred ==
    op \in ProjectionNames =>
        \A r \in RelationsOf(op) :
            LET flat == Get(arg.raw, r \o "_id")
                nested == Get(arg.raw, r)
                view == Get(result.val, r \o "_id")
            IN  IF flat.t = "string" THEN view = flat
                ELSE IF flat.t \notin {"undefined", "null"} THEN TRUE
                ELSE IF Get(nested, "id").t = "string" THEN view = Get(nested, "id")
                ELSE view \in {Undef, Null}

\* C10: a raw record with only the flat identifier v and a raw record with
\* only the nested object {id: v} both project to the identifier v.
C10_ShapeAgnostic ==
    op \in ProjectionNames =>
        \A r \in RelationsOf(op) :
            LET flat == Get(arg.raw, r \o "_id")
                nested == Get(arg.raw, r)
                view == Get(result.val, r \o "_id")
            IN  /\ (flat.t = "string" /\ nested = Undef) => view = flat
                /\ (flat = Undef /\ Get(nested, "id").t = "string") =>
                       view = Get(nested, "id")

\* an issue with only the nested account {id: "A1"} projected to account_id "A1"
C10_Witness ==
    /\ op = "toIssueMinimal"
    /\ Get(arg.raw, "account_id") = Undef
    /\ Get(Get(arg.raw, "account"), "id") = Str("A1")
    /\ Get(result.val, "account_id") = Str("A1")

(***************************************************************************)
(* The body preview and the remaining views (schemas.ts).                  *)
(***************************************************************************)
MAX_BODY_LENGTH == 500

\* stripHtmlAndTruncate cutting at maxLength instead of maxLength - 3
stripHtmlAndTruncateCutAtMax(html, maxLength) ==
    IF ~Truthy(html) THEN ""
    ELSE LET text == StripHtml(html.s)
         IN  IF Len(text) <= maxLength THEN text
             ELSE Slice(text, maxLength) \o "..."

stripHtmlAndTruncate(html, maxLength) ==
    IF ~Truthy(html) THEN ""
    ELSE LET text == StripHtml(html.s)
         IN  IF Len(text) <= maxLength THEN text
             ELSE Slice(text, maxLength - 3) \o "..."

\* toIssueFull spreading the minimal view instead of the standard view
toIssueFullOfMinimal(raw) ==
    Obj(toIssueMinimal(raw).o
        \o <<Entry("body_html",
                   Str(stripHtmlAndTruncate(Get(raw, "body_html"), MAX_BODY_LENGTH)))>>)

toIssueFull(raw) ==
    Obj(toIssueStandard(raw).o
        \o <<Entry("body_html",
                   Str(stripHtmlAndTruncate(Get(raw, "body_html"), MAX_BODY_LENGTH)))>>)

\* users?.length
MemberCount(users) ==
    IF users.t = "array" THEN Num(Len(users.a)) ELSE Undef

toTeamMinimal(raw) ==
    Obj(<<Entry("id", Get(raw, "id")),
          Entry("name", Get(raw, "name")),
          Entry("member_count", MemberCount(Get(raw, "users")))>>)

toTeamStandard(raw) ==
    Obj(toTeamMinimal(raw).o \o <<Entry("users", Get(raw, "users"))>>)

(***************************************************************************)
(* The table formatters (index.ts).                                        *)
(***************************************************************************)
MAX_TITLE_LENGTH == 60

MAX_NAME_LENGTH == 40

\* escapeCell(value)
escapeCell(value) ==
    IF ~Truthy(value) THEN ""
    ELSE ReplaceChar(ReplaceChar(value.s, "|", "\\|"), "\n", " ")

\* truncate keeping maxLength characters before the ellipsis
truncateCutAtMax(value, maxLength) ==
    IF ~Truthy(value) THEN ""
    ELSE IF Len(value.s) <= maxLength THEN value.s
    ELSE Slice(value.s, maxLength) \o "..."

\* truncate(value, maxLength)
truncate(value, maxLength) ==
    IF ~Truthy(value) THEN ""
    ELSE IF Len(value.s) <= maxLength THEN value.s
    ELSE Slice(value.s, maxLength - 3) \o "..."

RECURSIVE Join(_, _)
\* parts.join(separator)
Join(parts, separator) ==
    IF parts = <<>> THEN ""
    ELSE IF Len(parts) = 1 THEN parts[1]
    ELSE parts[1] \o separator \o Join(Tail(parts), separator)

\* String(value) of a string or a number
StringOf(value) == IF value.t = "number" THEN NumToString(value.n) ELSE value.s

\* value?.split('T')[0]
DatePart(value) ==
    IF value.t # "string" THEN Undef
    ELSE LET at == Positions(value.s, {"T"})
         IN  Str(IF at = {} THEN value.s ELSE SubSeq(value.s, 1, First(at) - 1))

\* the text of a table: the header row, the separator row and the data rows
Table(headers, rows) ==
    ("| " \o Join(headers, " | ") \o " |") \o "\n"
    \o ("|" \o Join([i \in 1..Len(headers) |-> "---"], "|") \o "|") \o "\n"
    \o Join([i \in 1..Len(rows) |-> "| " \o Join(rows[i], " | ") \o " |"], "\n")

IssueHeaders == <<"#", "Title", "State", "Created", "Link">>

formatIssuesAsTable(issues) ==
    IF Len(issues) = 0 THEN "No issues found."
    ELSE Table(IssueHeaders,
               [i \in 1..Len(issues) |->
                   <<escapeCell(Str(StringOf(Coalesce(Get(issues[i], "number"), Str(""))))),
                     escapeCell(Str(truncate(Get(issues[i], "title"), MAX_TITLE_LENGTH))),
                     escapeCell(Get(issues[i], "state")),
                     escapeCell(Or(DatePart(Get(issues[i], "created_at")), Str("-"))),
                     Or(Get(issues[i], "link"), Str("-")).s>>])

AccountHeaders == <<"ID", "Name", "Domain", "Tags">>

\* (account.tags || []).slice(0, 3).join(', ')
TagList(tags) ==
    LET list == IF Truthy(tags) THEN tags.a ELSE <<>>
        shown == SubSeq(list, 1, IF Len(list) < 3 THEN Len(list) ELSE 3)
    IN  Join([i \in 1..Len(shown) |-> shown[i].s], ", ")

formatAccountsAsTable(accounts) ==
    IF Len(accounts) = 0 THEN "No accounts found."
    ELSE Table(AccountHeaders,
               [i \in 1..Len(accounts) |->
                   <<escapeCell(Get(accounts[i], "id")),
                     escapeCell(Str(truncate(Get(accounts[i], "name"), MAX_NAME_LENGTH))),
                     escapeCell(Or(Get(accounts[i], "primary_domain"), Str("-"))),
                     escapeCell(Or(Str(TagList(Get(accounts[i], "tags"))), Str("-")))>>])

ContactHeaders == <<"ID", "Name", "Email", "Account ID">>

formatContactsAsTable(contacts) ==
    IF Len(contacts) = 0 THEN "No contacts found."
    ELSE Table(ContactHeaders,
               [i \in 1..Len(contacts) |->
                   <<escapeCell(Get(contacts[i], "id")),
                     escapeCell(Str(truncate(Get(contacts[i], "name"), MAX_NAME_LENGTH))),
                     escapeCell(Or(Get(contacts[i], "email"), Str("-"))),
                     escapeCell(Or(Get(contacts[i], "account_id"), Str("-")))>>])

TagHeaders == <<"ID", "Value", "Type", "Color">>

formatTagsAsTable(tags) ==
    IF Len(tags) = 0 THEN "No tags found."
    ELSE Table(TagHeaders,
               [i \in 1..Len(tags) |->
                   <<escapeCell(Get(tags[i], "id")),
                     escapeCell(Get(tags[i], "value")),
                     escapeCell(Get(tags[i], "object_type")),
                     escapeCell(Or(Get(tags[i], "hex_color"), Str("-")))>>])

TeamHeaders == <<"ID", "Name", "Members">>

\* `${memberCount} member${memberCount !== 1 ? 's' : ''}`, or '-' for no member
MemberPreview(users) ==
    LET memberCount == IF Truthy(users) THEN Len(users.a) ELSE 0
    IN  IF memberCount > 0
        THEN NumToString(memberCount) \o " member" \o (IF memberCount # 1 THEN "s" ELSE "")
        ELSE "-"

formatTeamsAsTable(teams) ==
    IF Len(teams) = 0 THEN "No teams found."
    ELSE Table(TeamHeaders,
               [i \in 1..Len(teams) |->
                   <<escapeCell(Get(teams[i], "id")),
                     escapeCell(Str(truncate(Get(teams[i], "name"), MAX_NAME_LENGTH))),
                     MemberPreview(Get(teams[i], "users"))>>])

(***************************************************************************)
(* The pure functions of the projector and of the formatters, each applied *)
(* once to an input of the model.  The argument of a call is the object of *)
(* its named parameters.                                                   *)
(***************************************************************************)
\* the most characters of a text of the model, not counting a padding of
\* repeated letters
MaxLen == 4

RECURSIVE Strings(_, _)
\* the strings of at most n characters of an alphabet
Strings(alphabet, n) ==
    IF n = 0 THEN {""}
    ELSE {""} \cup {c \o x : c \in alphabet, x \in Strings(alphabet, n - 1)}

HtmlAlphabet == {"a", "<", ">", " ", "\n"}

\* the values of body_html: absent, null, short texts, and texts padded so
\* that their stripped length lies on either side of MAX_BODY_LENGTH
HtmlInputs ==
    {Undef, Null}
    \cup {Str(x) : x \in Strings(HtmlAlphabet, MaxLen)}
    \cup {Str(Repeat("a", MAX_BODY_LENGTH - 2) \o x) : x \in Strings(HtmlAlphabet, MaxLen)}

CellAlphabet == {"a", "|", "\n"}

\* the values of a rendered field: short texts, and texts padded to the widths
\* at which titles and names are truncated
CellTexts ==
    LET short == Strings(CellAlphabet, MaxLen) \ {""}
    IN  short
        \cup {Repeat("a", MAX_NAME_LENGTH - 2) \o x : x \in short}
        \cup {Repeat("a", MAX_TITLE_LENGTH - 2) \o x : x \in short}

PlainIssue ==
    Obj(<<Entry("id", Str("I0")), Entry("number", Num(41)), Entry("title", Str("Plain")),
          Entry("state", Str("new")), Entry("link", Str("https://app/i/41")),
          Entry("created_at", Str("2024-02-01T00:00:00Z"))>>)

\* records that carry one text of the model in one rendered field
RecordsWith(id, fields) ==
    {Obj(<<Entry("id", Str(id)), Entry(f, Str(x))>>) : f \in fields, x \in CellTexts}

\* the sequences of records a formatter is applied to: no record, one record
\* of the model, or a plain record followed by one of the model
RowsOf(plain, records) ==
    {<<>>} \cup {<<r>> : r \in records} \cup {<<plain, r>> : r \in records}

IssueRows ==
    RowsOf(toIssueMinimal(PlainIssue),
           {toIssueMinimal(r) : r \in RecordsWith("I1", {"title", "state", "created_at", "link"})
                                      \cup {Obj(<<Entry("id", Str("I1")), Entry("number", Num(42))>>)}})

AccountRows ==
    RowsOf(toAccountMinimal(Obj(<<Entry("id", Str("AC0")), Entry("name", Str("Plain"))>>)),
           {toAccountMinimal(r) :
               r \in RecordsWith("AC1", {"name", "primary_domain"})
                     \cup {Obj(<<Entry("id", Str(x))>>) : x \in CellTexts}
                     \cup {Obj(<<Entry("id", Str("AC1")), Entry("tags", Arr(<<Str("vip"), Str(x)>>))>>) :
                              x \in CellTexts}})

ContactRows ==
    RowsOf(toContactMinimal(Obj(<<Entry("id", Str("CO0")), Entry("name", Str("Plain"))>>)),
           {toContactMinimal(r) : r \in RecordsWith("CO1", {"name", "email", "account_id"})})

TagRows ==
    RowsOf(Obj(<<Entry("id", Str("TG0")), Entry("value", Str("vip")),
                 Entry("object_type", Str("account"))>>),
           RecordsWith("TG1", {"value", "object_type", "hex_color"}))

TeamRows ==
    RowsOf(Obj(<<Entry("id", Str("TM0")), Entry("name", Str("Plain"))>>),
           RecordsWith("TM1", {"name"})
           \cup {Obj(<<Entry("id", Str("TM1")), Entry("users", Arr(us))>>) :
                    us \in {<<>>, <<Obj(<<Entry("id", Str("U1"))>>)>>,
                            <<Obj(<<Entry("id", Str("U1"))>>), Obj(<<Entry("id", Str("U2"))>>)>>}})

FormatterNames ==
    {"formatIssuesAsTable", "formatAccountsAsTable", "formatContactsAsTable",
     "formatTagsAsTable", "formatTeamsAsTable"}

FormatterRows(fn) ==
    CASE fn = "formatIssuesAsTable" -> IssueRows
      [] fn = "formatAccountsAsTable" -> AccountRows
      [] fn = "formatContactsAsTable" -> ContactRows
      [] fn = "formatTagsAsTable" -> TagRows
      [] fn = "formatTeamsAsTable" -> TeamRows

Format(fn, rows) ==
    CASE fn = "formatIssuesAsTable" -> formatIssuesAsTable(rows)
      [] fn = "formatAccountsAsTable" -> formatAccountsAsTable(rows)
      [] fn = "formatContactsAsTable" -> formatContactsAsTable(rows)
      [] fn = "formatTagsAsTable" -> formatTagsAsTable(rows)
      [] fn = "formatTeamsAsTable" -> formatTeamsAsTable(rows)

FormatterHeaders(fn) ==
    CASE fn = "formatIssuesAsTable" -> IssueHeaders
      [] fn = "formatAccountsAsTable" -> AccountHeaders
      [] fn = "formatContactsAsTable" -> ContactHeaders
      [] fn = "formatTagsAsTable" -> TagHeaders
      [] fn = "formatTeamsAsTable" -> TeamHeaders

\* the bodies of the raw issues whose views are compared
SampleBodies ==
    {Undef, Null, Str(""), Str("<p>Hi <b>there</b></p>"),
     Str("<p>" \o Repeat("a", MAX_BODY_LENGTH + 1) \o "</p>")}

\* raw issues with at most one relation, and a body
RawIssuesWithBody ==
    {Obj(<<Entry("id", Str("I1")), Entry("title", Str("Bug")), Entry("state", Str("new"))>>
         \o r \o (IF b = Undef THEN <<>> ELSE <<Entry("body_html", b)>>)) :
        r \in RelationChoices(<<"account", "assignee", "requester", "team">>, 1),
        b \in SampleBodies}

RawTeams ==
    {Obj(<<Entry("id", Str("TM1")), Entry("name", Str("Support"))>>
         \o (IF us = Undef THEN <<>> ELSE <<Entry("users", us)>>)) :
        us \in {Undef, Arr(<<>>),
                Arr(<<Obj(<<Entry("id", Str("U1")), Entry("email", Str("u1@x.io"))>>)>>)}}

ViewKinds == {"issue", "account", "contact", "team"}

RawRecordsOfKind(kind) ==
    CASE kind = "issue" -> RawIssuesWithBody
      [] kind = "account" -> RawAccounts
      [] kind = "contact" -> RawContacts
      [] kind = "team" -> RawTeams

\* the views of a raw record, by name; only an issue has a full view
Views(kind, raw) ==
    CASE kind = "issue" ->
            Obj(<<Entry("minimal", toIssueMinimal(raw)),
                  Entry("standard", toIssueStandard(raw)),
                  Entry("full", toIssueFull(raw))>>)
      [] kind = "account" ->
            Obj(<<Entry("minimal", toAccountMinimal(raw)),
                  Entry("standard", toAccountStandard(raw))>>)
      [] kind = "contact" ->
            Obj(<<Entry("minimal", toContactMinimal(raw)),
                  Entry("standard", toContactStandard(raw))>>)
      [] kind = "team" ->
            Obj(<<Entry("minimal", toTeamMinimal(raw)),
                  Entry("standard", toTeamStandard(raw))>>)

CallStripHtmlAndTruncate ==
    /\ phase = "idle"
    /\ \E html \in HtmlInputs :
        Finish("stripHtmlAndTruncate",
               Obj(<<Entry("html", html), Entry("maxLength", Num(MAX_BODY_LENGTH))>>),
               Ret(Str(stripHtmlAndTruncate(html, MAX_BODY_LENGTH))), FALSE)

\* every projection function of one entity kind applied to the same raw record
CallViews ==
    /\ phase = "idle"
    /\ \E kind \in ViewKinds :
        \E raw \in RawRecordsOfKind(kind) :
            Finish("views", Obj(<<Entry("kind", Str(kind)), Entry("raw", raw)>>),
                   Ret(Views(kind, raw)), FALSE)

CallFormatTable ==
    /\ phase = "idle"
    /\ \E fn \in FormatterNames :
        \E rows \in FormatterRows(fn) :
            Finish(fn, Obj(<<Entry("rows", Arr(rows))>>), Ret(Str(Format(fn, rows))), FALSE)

TextNext ==
    \/ CallStripHtmlAndTruncate
    \/ CallViews
    \/ CallFormatTable

TextSpec == Init /\ [][TextNext]_vars

(***************************************************************************)
(* The tools (index.ts).  A tool invocation checks its arguments against   *)
(* the tool's schema, calls one client method, awaits the response and     *)
(* builds its output from it.                                              *)
(***************************************************************************)
DEFAULT_ISSUE_LIMIT == 25

DEFAULT_LIST_LIMIT == 50

MAX_LIST_LIMIT == 100

GetTools == {"pylon_get_issue", "pylon_get_account", "pylon_get_contact", "pylon_get_team"}

BodyTool == "pylon_get_issue_body"

ListTools ==
    {"pylon_list_accounts", "pylon_list_contacts", "pylon_list_issues", "pylon_list_tags",
     "pylon_list_teams"}

SearchTools == {"pylon_search_accounts", "pylon_search_contacts", "pylon_search_issues"}

ToolNames == GetTools \cup {BodyTool} \cup ListTools \cup SearchTools

\* the tools that read the response with `result.data || []` and
\* `result.pagination?.has_next_page`
LenientTools == SearchTools \cup {"pylon_list_issues"}

\* the collection a tool addresses
ToolPath(tool) ==
    CASE tool \in {"pylon_get_issue", BodyTool, "pylon_list_issues"} -> "/issues"
      [] tool \in {"pylon_get_account", "pylon_list_accounts"} -> "/accounts"
      [] tool \in {"pylon_get_contact", "pylon_list_contacts"} -> "/contacts"
      [] tool \in {"pylon_get_team", "pylon_list_teams"} -> "/teams"
      [] tool = "pylon_list_tags" -> "/tags"

\* z.number().min(lo).max(hi).optional()
ValidOptionalNumber(value, lo, hi) ==
    value = Undef \/ (value.t = "number" /\ lo <= value.n /\ value.n <= hi)

\* the arguments a tool's schema accepts
ValidArguments(tool, args) ==
    CASE tool = BodyTool -> ValidOptionalNumber(Get(args, "max_length"), 100, 10000)
      [] tool \in ListTools \cup SearchTools ->
            ValidOptionalNumber(Get(args, "limit"), 1, MAX_LIST_LIMIT)
      [] OTHER -> TRUE

\* { limit: limit ?? defaultLimit, cursor }
ToolParams(args, defaultLimit) ==
    [limit |-> Coalesce(Get(args, "limit"), Num(defaultLimit)), cursor |-> Get(args, "cursor")]

\* getIssue(id), getAccount(id), getContact(id), getTeam(id)
GetById(path, id) == Send(Request("GET", path \o "/" \o id, <<>>, Undef))

\* listAccounts(params), listContacts(params), listTags(params), listTeams(params)
ListPlain(path, params) == Send(Request("GET", path, PaginationQuery(params), Undef))

\* the synchronous part of a tool invocation: the arguments are rejected, or
\* the client method throws, or it issues its request
ToolStart(tool, args) ==
    IF ~ValidArguments(tool, args)
    THEN Fail(Error("InvalidParams", <<Txt("Invalid arguments for tool "), Txt(tool)>>))
    ELSE CASE tool \in GetTools \cup {BodyTool} -> GetById(ToolPath(tool), Get(args, "id").s)
           [] tool = "pylon_list_issues" ->
                 listIssues(Get(args, "start_time").s, Get(args, "end_time").s,
                            ToolParams(args, DEFAULT_ISSUE_LIMIT))
           [] tool \in ListTools \ {"pylon_list_issues"} ->
                 ListPlain(ToolPath(tool), ToolParams(args, DEFAULT_LIST_LIMIT))
           [] tool = "pylon_search_issues" ->
                 searchIssues(Get(args, "filter"), ToolParams(args, DEFAULT_ISSUE_LIMIT))
           [] tool = "pylon_search_accounts" ->
                 searchAccounts(Get(args, "filter"), ToolParams(args, DEFAULT_LIST_LIMIT))
           [] tool = "pylon_search_contacts" ->
                 searchContacts(Get(args, "filter"), ToolParams(args, DEFAULT_LIST_LIMIT))

\* `${value}` in a template literal
Template(value) ==
    CASE value.t = "number" -> NumToString(value.n)
      [] value.t = "null" -> "null"
      [] value.t = "undefined" -> "undefined"
      [] OTHER -> value.s

\* the hint without the cursor of the response
NextPageHintWithoutCursor(pagination) ==
    IF Truthy(Get(pagination, "has_next_page"))
    THEN "\n\nMore results available. Use cursor: \"\""
    ELSE ""

\* the hint appended to a table when the response has another page
NextPageHint(pagination) ==
    IF Truthy(Get(pagination, "has_next_page"))
    THEN "\n\nMore results available. Use cursor: \""
         \o Template(Get(pagination, "cursor")) \o "\""
    ELSE ""

\* the table a list or search tool renders from the records of the response
ToolTable(tool, records) ==
    CASE tool \in {"pylon_list_accounts", "pylon_search_accounts"} ->
            formatAccountsAsTable([i \in 1..Len(records) |-> toAccountMinimal(records[i])])
      [] tool \in {"pylon_list_contacts", "pylon_search_contacts"} ->
            formatContactsAsTable([i \in 1..Len(records) |-> toContactMinimal(records[i])])
      [] tool \in {"pylon_list_issues", "pylon_search_issues"} ->
            formatIssuesAsTable([i \in 1..Len(records) |-> toIssueMinimal(records[i])])
      [] tool = "pylon_list_tags" -> formatTagsAsTable(records)
      [] tool = "pylon_list_teams" ->
            formatTeamsAsTable([i \in 1..Len(records) |-> toTeamMinimal(records[i])])

\* the output of a list or search tool; result.data.map and
\* result.pagination.has_next_page throw when the response lacks the property
ListOutput(tool, json) ==
    LET data == Get(json, "data")
        pagination == Get(json, "pagination")
    IN  IF tool \notin LenientTools
           /\ (data.t # "array" \/ pagination.t \in {"undefined", "null"})
        THEN Throw(Error("TypeError", <<Txt("Cannot read properties of undefined")>>))
        ELSE Ret(Str(ToolTable(tool, IF Truthy(data) THEN data.a ELSE <<>>)
                     \o NextPageHint(pagination)))

\* JSON.stringify(value, null, 2) of an object, as the JSON value the text
\* denotes: a property whose value is undefined is omitted
Json(value) == JsonBody(value.o)

\* the output of a get tool
GetOutput(tool, args, json) ==
    LET raw == Get(json, "data")
    IN  CASE tool = "pylon_get_issue" ->
                IF Truthy(Get(args, "include_body"))
                THEN Json(toIssueFull(raw)) ELSE Json(toIssueStandard(raw))
          [] tool = "pylon_get_account" -> Json(toAccountMinimal(raw))
          [] tool = "pylon_get_contact" -> Json(toContactMinimal(raw))
          [] tool = "pylon_get_team" -> Json(raw)

DEFAULT_BODY_LENGTH == 2000

\* pylon_get_issue_body reporting the length shown as the total
BodyOutputShownAsTotal(args, json) ==
    LET raw == Get(json, "data")
        bodyHtml == Get(raw, "body_html")
        maxLen == Coalesce(Get(args, "max_length"), Num(DEFAULT_BODY_LENGTH)).n
        text == StripHtml(bodyHtml.s)
        truncated == IF Len(text) > maxLen THEN Slice(text, maxLen - 3) \o "..." ELSE text
    IN  IF ~Truthy(bodyHtml) THEN "No body content available."
        ELSE "Issue #" \o Template(Get(raw, "number")) \o " body ("
             \o NumToString(Len(truncated)) \o " chars total, showing "
             \o NumToString(Len(truncated)) \o "):\n\n" \o truncated

\* the output of pylon_get_issue_body
BodyOutput(args, json) ==
    LET raw == Get(json, "data")
        bodyHtml == Get(raw, "body_html")
        maxLen == Coalesce(Get(args, "max_length"), Num(DEFAULT_BODY_LENGTH)).n
        text == StripHtml(bodyHtml.s)
        truncated == IF Len(text) > maxLen THEN Slice(text, maxLen - 3) \o "..." ELSE text
    IN  IF ~Truthy(bodyHtml) THEN "No body content available."
        ELSE "Issue #" \o Template(Get(raw, "number")) \o " body ("
             \o NumToString(Len(text)) \o " chars total, showing "
             \o NumToString(Len(truncated)) \o "):\n\n" \o truncated

\* the part of a tool invocation after the await: request() throws for a
\* failed response, and otherwise the handler builds its output
ToolFinish(tool, args, response) ==
    LET parsed == HandleResponse(response)
    IN  IF parsed.err.kind # "none" THEN parsed
        ELSE CASE tool \in GetTools -> Ret(GetOutput(tool, args, parsed.val))
               [] tool = BodyTool -> Ret(Str(BodyOutput(args, parsed.val)))
               [] OTHER -> ListOutput(tool, parsed.val)

(***************************************************************************)
(* The inputs of the tools and the responses of the remote API.            *)
(***************************************************************************)
\* the most records in one page of a response
MaxRecords == 2

\* the entry of an optional argument; undefined stands for an omitted one
OptionalEntry(key, value) == IF value = Undef THEN <<>> ELSE <<Entry(key, value)>>

LimitInputs == {Undef, Num(0), Num(1), Num(100), Num(101), Num(1000)}

CursorInputs == {Undef, Str(""), Str("c1"), Str("a:b c")}

\* limit and cursor arguments added to the other arguments of a tool
WithPaging(entries) ==
    {Obj(entries \o OptionalEntry("limit", l) \o OptionalEntry("cursor", c)) :
        l \in LimitInputs, c \in CursorInputs}

\* filters that conform to the schema of each search tool
ToolFilters(tool) ==
    CASE tool = "pylon_search_issues" ->
            {Obj(<<>>),
             Obj(<<Entry("title", Obj(<<Entry("string_contains", Str("bug"))>>)),
                   Entry("state", Obj(<<>>))>>),
             Obj(<<Entry("created_at", Obj(<<Entry("time_range",
                 TimeRange("2024-02-01T00:00:00Z", "2024-03-02T00:00:00Z"))>>))>>),
             Obj(<<Entry("created_at", Obj(<<Entry("time_range",
                 TimeRange("2024-02-01T00:00:00Z", "2024-03-10T00:00:00Z"))>>))>>)}
      [] tool = "pylon_search_accounts" ->
            {Obj(<<>>),
             Obj(<<Entry("name", Obj(<<Entry("string_contains", Str("acme"))>>)),
                   Entry("tags", Obj(<<>>))>>)}
      [] tool = "pylon_search_contacts" ->
            {Obj(<<>>),
             Obj(<<Entry("email", Obj(<<Entry("string_contains", Str("@x.io"))>>)),
                   Entry("account_id", Obj(<<Entry("is_set", Bool(TRUE))>>))>>)}

\* the lengths at which pylon_get_issue_body may truncate
BodyLengths == {100, DEFAULT_BODY_LENGTH, 10000}

\* the values of body_html of the issue pylon_get_issue_body fetches: short
\* bodies and bodies whose stripped text is just below or above a maximum
BodyInputs ==
    {Undef, Null, Str(""), Str("<p></p>"), Str("<p>Hi <b>there</b></p>")}
    \cup {Str(Repeat("a", n - 2) \o x) :
             n \in BodyLengths, x \in {"", "a", "aa", "aaa", "<br>a<b>aa</b>"}}

ToolArguments(tool) ==
    CASE tool = "pylon_get_issue" ->
            {Obj(<<Entry("id", Str("I1"))>> \o OptionalEntry("include_body", b)) :
                b \in {Undef, Bool(FALSE), Bool(TRUE)}}
      [] tool = "pylon_get_account" -> {Obj(<<Entry("id", Str("AC1"))>>)}
      [] tool = "pylon_get_contact" -> {Obj(<<Entry("id", Str("CO1"))>>)}
      [] tool = "pylon_get_team" -> {Obj(<<Entry("id", Str("TM1"))>>)}
      [] tool = BodyTool ->
            {Obj(<<Entry("id", Str("I1"))>> \o OptionalEntry("max_length", m)) :
                m \in {Undef, Num(99), Num(100), Num(10000), Num(10001)}}
      [] tool = "pylon_list_issues" ->
            UNION {WithPaging(<<Entry("start_time", Str("2024-02-01T00:00:00Z")),
                                Entry("end_time", Str(e))>>) :
                      e \in {"2024-03-02T00:00:00Z", "2024-03-10T00:00:00Z"}}
      [] tool \in ListTools \ {"pylon_list_issues"} -> WithPaging(<<>>)
      [] tool \in SearchTools ->
            UNION {WithPaging(<<Entry("filter", f)>>) : f \in ToolFilters(tool)}

\* a successful response with a JSON body
OkResponse(json) ==
    [ok |-> TRUE, status |-> 200, statusText |-> "OK", text |-> "", json |-> json]

ErrorResponses ==
    {[ok |-> FALSE, status |-> 500, statusText |-> "Internal Server Error",
      text |-> "boom", json |-> Undef],
     [ok |-> FALSE, status |-> 404, statusText |-> "Not Found",
      text |-> "{\"error\":\"not found\"}", json |-> Undef]}

\* the raw records of the remote API, by collection
RemoteRecords(path) ==
    CASE path = "/issues" ->
            {Obj(<<Entry("id", Str("I1")), Entry("number", Num(7)), Entry("title", Str("Bug")),
                   Entry("state", Str("new")), Entry("created_at", Str("2024-02-01T00:00:00Z")),
                   Entry("link", Str("https://app/i/7")), Entry("account_id", Str("A1")),
                   Entry("team", Obj(<<Entry("id", Str("A2"))>>)),
                   Entry("source", Str("email")),
                   Entry("body_html", Str("<p>Hi <b>there</b></p>"))>>),
             Obj(<<Entry("id", Str("I2")), Entry("number", Num(8)), Entry("title", Str("a|b")),
                   Entry("state", Str("open"))>>)}
      [] path = "/accounts" ->
            {Obj(<<Entry("id", Str("AC1")), Entry("name", Str("Acme")),
                   Entry("owner", Obj(<<Entry("id", Str("A2"))>>)),
                   Entry("domains", Arr(<<Str("acme.io")>>)), Entry("type", Str("customer"))>>),
             Obj(<<Entry("id", Str("AC2")), Entry("name", Str("Beta")),
                   Entry("primary_domain", Str("beta.io"))>>)}
      [] path = "/contacts" ->
            {Obj(<<Entry("id", Str("CO1")), Entry("name", Str("Ann")),
                   Entry("email", Str("ann@x.io")), Entry("account_id", Str("A1")),
                   Entry("avatar_url", Str("https://x.io/a.png"))>>),
             Obj(<<Entry("id", Str("CO2")), Entry("name", Str("Bob"))>>)}
      [] path = "/teams" ->
            {Obj(<<Entry("id", Str("TM1")), Entry("name", Str("Support")),
                   Entry("users", Arr(<<Obj(<<Entry("id", Str("U1")),
                                              Entry("email", Str("u1@x.io"))>>)>>))>>),
             Obj(<<Entry("id", Str("TM2")), Entry("name", Str("Sales"))>>)}
      [] path = "/tags" ->
            {Obj(<<Entry("id", Str("TG1")), Entry("value", Str("vip")),
                   Entry("object_type", Str("account"))>>),
             Obj(<<Entry("id", Str("TG2")), Entry("value", Str("bug")),
                   Entry("object_type", Str("issue")), Entry("hex_color", Str("#ff0000"))>>)}

\* the collection whose records a tool receives
ToolCollection(tool) ==
    CASE tool = "pylon_search_issues" -> "/issues"
      [] tool = "pylon_search_accounts" -> "/accounts"
      [] tool = "pylon_search_contacts" -> "/contacts"
      [] OTHER -> ToolPath(tool)

RECURSIVE Pages(_, _)
\* the sequences of at most n records
Pages(records, n) ==
    IF n = 0 THEN {<<>>}
    ELSE {<<>>} \cup {<<r>> \o rest : r \in records, rest \in Pages(records, n - 1)}

\* the pagination object of a response; undefined stands for an absent one
Paginations ==
    {Undef,
     Obj(<<Entry("cursor", Null), Entry("has_next_page", Bool(FALSE))>>),
     Obj(<<Entry("cursor", Str("n:1 +")), Entry("has_next_page", Bool(TRUE))>>),
     Obj(<<Entry("cursor", Str("n:2")), Entry("has_next_page", Bool(FALSE))>>)}

\* the responses the remote API may give to the request of a tool
ToolResponses(tool) ==
    ErrorResponses
    \cup (CASE tool \in GetTools ->
                 {OkResponse(Obj(<<Entry("data", r)>>)) : r \in RemoteRecords(ToolCollection(tool))}
            [] tool = BodyTool ->
                 {OkResponse(Obj(<<Entry("data",
                      Obj(<<Entry("id", Str("I1")), Entry("number", Num(7))>>
                          \o OptionalEntry("body_html", b)))>>)) : b \in BodyInputs}
            [] OTHER ->
                 {OkResponse(Obj(<<Entry("data", Arr(rows))>> \o OptionalEntry("pagination", p))) :
                     rows \in Pages(RemoteRecords(ToolCollection(tool)), MaxRecords),
                     p \in Paginations})

CallGetTool ==
    /\ phase = "idle"
    /\ \E tool \in GetTools \cup {BodyTool} :
        \E args \in ToolArguments(tool) : Invoke(tool, args, ToolStart(tool, args))

CallListTool ==
    /\ phase = "idle"
    /\ \E tool \in ListTools :
        \E args \in ToolArguments(tool) : Invoke(tool, args, ToolStart(tool, args))

CallSearchTool ==
    /\ phase = "idle"
    /\ \E tool \in SearchTools :
        \E args \in ToolArguments(tool) : Invoke(tool, args, ToolStart(tool, args))

\* fetch completes and the handler runs to its end
ToolRespond ==
    /\ phase = "awaiting"
    /\ \E r \in ToolResponses(op) :
        LET out == ToolFinish(op, arg, r)
        IN  /\ result' = out
            /\ phase' = IF out.err.kind = "none" THEN "returned" ELSE "thrown"
            /\ received' = r
    /\ UNCHANGED <<op, arg, sent, chained, whitelist, heap>>

ToolNext ==
    \/ CallGetTool
    \/ CallListTool
    \/ CallSearchTool
    \/ ToolRespond

ToolSpec == Init /\ [][ToolNext]_vars

(***************************************************************************)
(* Properties of the views, of the body preview and of the tables.         *)
(***************************************************************************)
\* every field of view a is a field of view b, with the same value
ContainedIn(a, b) ==
    \A i \in 1..Len(a.o) : a.o[i].k \in Keys(b) /\ Get(b, a.o[i].k) = a.o[i].v

BodyFields == {"body", "body_html"}

ViewsOfIssue == op = "views" /\ Get(arg, "kind") = Str("issue")

\* C11: for every raw record the Minimal view is contained, field by field
\* and value by value, in the Standard view, and for an issue both are
\* contained in the Full view; the Full view of an issue always has a
\* body_html field, and no Minimal or Standard view has a body field.
C11_ViewContainment ==
    op = "views" =>
        LET minimal == Get(result.val, "minimal")
            standard == Get(result.val, "standard")
            full == Get(result.val, "full")
        IN  /\ ContainedIn(minimal, standard)
            /\ Keys(minimal) \cap BodyFields = {}
            /\ Keys(standard) \cap BodyFields = {}
            /\ ViewsOfIssue =>
                  /\ ContainedIn(minimal, full)
                  /\ ContainedIn(standard, full)
                  /\ "body_html" \in Keys(full)
                  /\ Get(full, "body_html").t = "string"

\* the views of an issue whose raw record has no body and a nested team
C11_Witness ==
    /\ ViewsOfIssue
    /\ "body_html" \notin Keys(Get(arg, "raw"))
    /\ Get(Get(arg, "raw"), "team") = Obj(<<Entry("id", Str("A2"))>>)
    /\ Get(Get(result.val, "standard"), "team_id") = Str("A2")
    /\ Get(Get(result.val, "full"), "team_id") = Str("A2")
    /\ Get(Get(result.val, "full"), "body_html") = Str("")

\* the stripped, whitespace-collapsed, trimmed text of the html argument
StrippedArgument ==
    IF Truthy(Get(arg, "html")) THEN StripHtml(Get(arg, "html").s) ELSE ""

\* C12: stripHtmlAndTruncate(html, n) returns at most n characters: the
\* stripped text itself when it has at most n characters, and otherwise its
\* first n - 3 characters followed by "..."; the body of the Full view of an
\* issue has at most 500 characters.
C12_TruncatedToMaxLength ==
    /\ op = "stripHtmlAndTruncate" =>
          LET n == Get(arg, "maxLength").n
              text == StrippedArgument
          IN  /\ Len(result.val.s) <= n
              /\ Len(text) > n => result.val.s = SubSeq(text, 1, n - 3) \o "..."
              /\ Len(text) <= n => result.val.s = text
    /\ ViewsOfIssue => Len(Get(Get(result.val, "full"), "body_html").s) <= 500

\* a text one character too long is cut to exactly MAX_BODY_LENGTH characters
C12_Witness ==
    /\ op = "stripHtmlAndTruncate"
    /\ Len(StrippedArgument) = MAX_BODY_LENGTH + 1
    /\ Len(result.val.s) = MAX_BODY_LENGTH
    /\ SubSeq(result.val.s, MAX_BODY_LENGTH - 2, MAX_BODY_LENGTH) = "..."

\* a text with an embedded tag: a '<' with a '>' somewhere after it
HasEmbeddedTag(html) ==
    \E i \in Positions(html, {"<"}) : \E j \in Positions(html, {">"}) : i < j

\* C13: for every input with embedded tags the stripped and truncated text
\* contains neither '<' nor '>'.
C13_NoAngleBracketsLeft ==
    (/\ op = "stripHtmlAndTruncate"
     /\ Get(arg, "html").t = "string"
     /\ HasEmbeddedTag(Get(arg, "html").s))
        => Positions(result.val.s, {"<", ">"}) = {}

RECURSIVE Lines(_)
\* text.split('\n')
Lines(text) ==
    LET breaks == Positions(text, {"\n"})
    IN  IF breaks = {} THEN <<text>>
        ELSE <<SubSeq(text, 1, First(breaks) - 1)>>
             \o Lines(SubSeq(text, First(breaks) + 1, Len(text)))

\* the column delimiters of a line: the '|' characters not preceded by a backslash
Delimiters(line) ==
    Cardinality({i \in Positions(line, {"|"}) : i = 1 \/ CharAt(line, i - 1) # "\\"})

\* C16: every table of at least one record has one line per record after the
\* header and the separator, and every data row has as many unescaped column
\* delimiters as the header row.
C16_CellsCannotCorruptTable ==
    (op \in FormatterNames /\ Get(arg, "rows").a # <<>>) =>
        LET lines == Lines(result.val.s)
        IN  /\ Len(lines) = Len(Get(arg, "rows").a) + 2
            /\ \A i \in 3..Len(lines) : Delimiters(lines[i]) = Delimiters(lines[1])

(***************************************************************************)
(* Properties of the tools.                                                *)
(***************************************************************************)
\* the standard view of the record a get tool fetched
StandardViewOf(tool, raw) ==
    CASE tool = "pylon_get_issue" -> toIssueStandard(raw)
      [] tool = "pylon_get_account" -> toAccountStandard(raw)
      [] tool = "pylon_get_contact" -> toContactStandard(raw)
      [] tool = "pylon_get_team" -> toTeamStandard(raw)

\* the record in the response received
ReceivedRecord == Get(received.json, "data")

\* C14: every get tool returns the Standard view of the fetched record unless
\* include_body is true, and the Full view only when include_body is true.
C14_GetToolsReturnStandardByDefault ==
    (op \in GetTools /\ phase = "returned") =>
        IF op = "pylon_get_issue" /\ Get(arg, "include_body") = Bool(TRUE)
        THEN result.val = Json(toIssueFull(ReceivedRecord))
        ELSE result.val = Json(StandardViewOf(op, ReceivedRecord))

\* the maximum pylon_get_issue_body applies: max_length, or 2000 when omitted
RequestedMaxLength ==
    IF Get(arg, "max_length") = Undef THEN 2000 ELSE Get(arg, "max_length").n

\* the body text in the output of pylon_get_issue_body: what follows the
\* blank line after the header
BodyShown ==
    LET out == result.val.s
    IN  SubSeq(out, First(Positions(out, {"\n"})) + 2, Len(out))

\* the header line of the output of pylon_get_issue_body
BodyHeader ==
    LET out == result.val.s
    IN  SubSeq(out, 1, First(Positions(out, {"\n"})) - 1)

\* C15: pylon_get_issue_body accepts max_length from 100 to 10000 and rejects
\* other values; with a body it returns at most max_length characters (2000
\* when omitted), a prefix cut of the stripped text, with the length of the
\* stripped text as the total and the length of the text returned as the
\* shown count; without a body it returns 'No body content available.'.
C15_BodyWithinMaxLength ==
    op = BodyTool =>
        /\ ValidOptionalNumber(Get(arg, "max_length"), 100, 10000) <=> sent # <<>>
        /\ phase = "returned" =>
              LET bodyHtml == Get(ReceivedRecord, "body_html")
                  text == StripHtml(bodyHtml.s)
              IN  IF bodyHtml \in {Undef, Null, Str("")}
                  THEN result.val.s = "No body content available."
                  ELSE /\ Len(BodyShown) <= RequestedMaxLength
                       /\ Len(text) <= RequestedMaxLength => BodyShown = text
                       /\ Len(text) > RequestedMaxLength =>
                             BodyShown = SubSeq(text, 1, RequestedMaxLength - 3) \o "..."
                       /\ BodyHeader = "Issue #7 body (" \o NumToString(Len(text))
                                       \o " chars total, showing "
                                       \o NumToString(Len(BodyShown)) \o "):"

\* a body one character over the default maximum, with max_length omitted
C15_Witness ==
    /\ op = BodyTool
    /\ phase = "returned"
    /\ Get(arg, "max_length") = Undef
    /\ Len(StripHtml(Get(ReceivedRecord, "body_html").s)) = 2001
    /\ Len(BodyShown) = 2000
    /\ BodyHeader = "Issue #7 body (2001 chars total, showing 2000):"

\* C17: every search tool accepts an omitted limit and every limit from 1 to
\* 1000, transmits the sanitized filter, and returns the records of the
\* response projected to the Minimal view.
C17_SearchAcceptsLimitsTo1000 ==
    (/\ op \in SearchTools
     /\ ValidOptionalNumber(Get(arg, "limit"), 1, 1000)
     /\ validateFilterTimeRanges(Get(arg, "filter")).kind = "none")
        => /\ sent # <<>>
           /\ Get(sent[1].body, "filter")
                 = Coalesce(cleanFilter(Get(arg, "filter")).val, Obj(<<>>))
           /\ phase = "returned" =>
                 result.val.s = ToolTable(op, ReceivedRecord.a)
                                    \o NextPageHint(Get(received.json, "pagination"))

RECURSIVE UrlDecode(_)
\* the value a percent-encoded query parameter denotes
UrlDecode(x) ==
    IF x = "" THEN ""
    ELSE IF CharAt(x, 1) = "+" THEN " " \o UrlDecode(SubSeq(x, 2, Len(x)))
    ELSE IF CharAt(x, 1) = "%"
         THEN (CASE SubSeq(x, 2, 3) = "3A" -> ":"
                 [] SubSeq(x, 2, 3) = "2B" -> "+"
                 [] SubSeq(x, 2, 3) = "25" -> "%"
                 [] SubSeq(x, 2, 3) = "3D" -> "="
                 [] SubSeq(x, 2, 3) = "26" -> "&"
                 [] SubSeq(x, 2, 3) = "2F" -> "/"
                 [] SubSeq(x, 2, 3) = "7C" -> "|")
              \o UrlDecode(SubSeq(x, 4, Len(x)))
    ELSE CharAt(x, 1) \o UrlDecode(SubSeq(x, 2, Len(x)))

\* the cursors of the request issued: the decoded cursor parameters of its
\* query string and the cursor property of its JSON body
CursorsSent ==
    {Str(UrlDecode(sent[1].query[i].v)) :
        i \in {j \in 1..Len(sent[1].query) : sent[1].query[j].k = "cursor"}}
    \cup ({Get(sent[1].body, "cursor")} \ {Undef})

Contains(text, part) ==
    \E i \in 1..(Len(text) - Len(part) + 1) : SubSeq(text, i, i + Len(part) - 1) = part

EndsWith(text, suffix) ==
    /\ Len(suffix) <= Len(text)
    /\ SubSeq(text, Len(text) - Len(suffix) + 1, Len(text)) = suffix

\* C18: the request of a list or search tool carries exactly the cursor the
\* caller supplied (none when the caller supplied none or an empty one to a
\* list tool); the output ends with the cursor of the response's pagination,
\* and has the 'More results available' hint, exactly when has_next_page is
\* true.
C18_CursorPassedThrough ==
    (op \in ListTools \cup SearchTools) =>
        /\ sent # <<>> =>
              CursorsSent = (IF op \in ListTools /\ ~Truthy(Get(arg, "cursor"))
                             THEN {} ELSE {Get(arg, "cursor")} \ {Undef})
        /\ phase = "returned" =>
              LET pagination == Get(received.json, "pagination")
                  hinted == Contains(result.val.s, "More results available")
              IN  /\ hinted <=> Get(pagination, "has_next_page") = Bool(TRUE)
                  /\ hinted => EndsWith(result.val.s,
                                        "Use cursor: \"" \o Get(pagination, "cursor").s \o "\"")

\* a list tool called with a cursor that needs percent-encoding, answered
\* with a further cursor
C18_Witness ==
    /\ op = "pylon_list_accounts"
    /\ phase = "returned"
    /\ Get(arg, "cursor") = Str("a:b c")
    /\ \E i \in 1..Len(sent[1].query) : sent[1].query[i] = Entry("cursor", "a%3Ab+c")
    /\ EndsWith(result.val.s, "More results available. Use cursor: \"n:1 +\"")

\* the parts of the message of the error thrown
ErrorParts == {result.err.msg[i] : i \in 1..Len(result.err.msg)}

\* C19: an invocation issues at most one request; when the response has a
\* non-success status the invocation ends with the transport error, which
\* carries the status code and the body text of the response, and with no
\* result.
C19_OneRequestNoRetry ==
    /\ Len(sent) <= 1
    /\ (received # NoResponse /\ ~received.ok) =>
          /\ phase = "thrown"
          /\ Len(sent) = 1
          /\ result.val = Undef
          /\ result.err.kind = "Transport"
          /\ NumPart(<<received.status>>) \in ErrorParts
          /\ Txt(received.text) \in ErrorParts

\* pylon_search_issues answered with 404 Not Found
C19_Witness ==
    /\ op = "pylon_search_issues"
    /\ phase = "thrown"
    /\ received.status = 404
    /\ Len(sent) = 1
    /\ Txt("{\"error\":\"not found\"}") \in ErrorParts

(***************************************************************************)
(* Concurrent tool invocations.  The server runs every handler on one      *)
(* event loop, so handlers interleave at their await only; here each       *)
(* variable holds one value per invocation, and whitelist is the one       *)
(* object all invocations share.                                           *)
(***************************************************************************)
\* the most invocations in flight at once
MaxInvocations == 2

Invocations == 1..MaxInvocations

\* every invocation keeping its locals in the one slot of the first invocation
SlotShared(i) == 1

\* the closure that holds the locals of invocation i: a handler's `result`
\* and the values derived from it are constants of its own call
Slot(i) == i

\* the calls that run concurrently: tool and arguments
ConcurrentCalls ==
    {<<"pylon_search_issues",
       Obj(<<Entry("filter", Obj(<<Entry("title", Obj(<<Entry("string_contains", Str("bug")),
                                                        Entry("gte", Str("x"))>>))>>))>>)>>,
     <<"pylon_search_issues",
       Obj(<<Entry("filter", Obj(<<Entry("state", Obj(<<Entry("equals", Str("new"))>>))>>)),
             Entry("cursor", Str("c1"))>>)>>,
     <<"pylon_search_accounts",
       Obj(<<Entry("filter", Obj(<<Entry("name", Obj(<<Entry("equals", Str("Acme"))>>))>>))>>)>>,
     <<"pylon_get_issue", Obj(<<Entry("id", Str("I1")), Entry("include_body", Bool(TRUE))>>)>>,
     <<"pylon_list_accounts", Obj(<<Entry("limit", Num(101))>>)>>}

\* the responses given to concurrent calls: a failure, and one page or one record
ConcurrentResponses(tool) ==
    {r \in ToolResponses(tool) :
        \/ r.status = 500
        \/ /\ r.ok
           /\ Get(r.json, "data").t = "array" =>
                 /\ Len(Get(r.json, "data").a) = 1
                 /\ Get(Get(r.json, "pagination"), "has_next_page") = Bool(TRUE)}

ConcurrentInit ==
    /\ op = [i \in Invocations |-> "none"]
    /\ arg = [i \in Invocations |-> Obj(<<>>)]
    /\ phase = [i \in Invocations |-> "idle"]
    /\ sent = [i \in Invocations |-> <<>>]
    /\ result = [i \in Invocations |-> Ret(Undef)]
    /\ received = [i \in Invocations |-> NoResponse]
    /\ chained = FALSE
    /\ whitelist = VALID_OPERATORS
    /\ heap = NoObjects

\* invocation i runs up to its await, or throws before it
StartInvocation ==
    \E i \in Invocations :
        /\ phase[i] = "idle"
        /\ \E call \in ConcurrentCalls :
            LET out == ToolStart(call[1], call[2])
            IN  /\ op' = [op EXCEPT ![i] = call[1]]
                /\ arg' = [arg EXCEPT ![i] = call[2]]
                /\ sent' = [sent EXCEPT ![Slot(i)] = out.req]
                /\ result' = [result EXCEPT ![Slot(i)] =
                                 IF out.err.kind = "none" THEN Ret(Undef) ELSE Throw(out.err)]
                /\ phase' = [phase EXCEPT ![i] =
                                IF out.err.kind = "none" THEN "awaiting" ELSE "thrown"]
        /\ UNCHANGED <<received, chained, whitelist, heap>>

\* the response to invocation i arrives and its handler runs to its end
CompleteInvocation ==
    \E i \in Invocations :
        /\ phase[i] = "awaiting"
        /\ \E r \in ConcurrentResponses(op[i]) :
            LET out == ToolFinish(op[i], arg[i], r)
            IN  /\ result' = [result EXCEPT ![Slot(i)] = out]
                /\ phase' = [phase EXCEPT ![i] =
                                IF out.err.kind = "none" THEN "returned" ELSE "thrown"]
                /\ received' = [received EXCEPT ![i] = r]
        /\ UNCHANGED <<op, arg, sent, chained, whitelist, heap>>

ConcurrentNext ==
    \/ StartInvocation
    \/ CompleteInvocation

ConcurrentSpec == ConcurrentInit /\ [][ConcurrentNext]_vars

(***************************************************************************)
(* Properties of concurrent invocations.                                   *)
(***************************************************************************)
\* invocation i has run to its end after receiving a response
Completed(i) == phase[i] \in {"returned", "thrown"} /\ received[i] # NoResponse

C21_NoEmptyObjectTransmitted ==
    (/\ IsSearch
     /\ sent # <<>>
     /\ cleanFilter(arg.filter) = Ret(Undef))
        => Get(sent[1].body, "filter") # Obj(<<>>)

(***************************************************************************)
(* The sanitizer and the projector as seen by their caller: the calls that *)
(* take a filter or a raw record, with the issue Full view included.       *)
(***************************************************************************)
CallToIssueFull ==
    /\ phase = "idle"
    /\ \E raw \in RawIssuesWithBody :
        Finish("toIssueFull", [NoArg EXCEPT !.fn = "toIssueFull", !.raw = raw],
               Ret(toIssueFull(raw)), FALSE)

CallToTeam ==
    /\ phase = "idle"
    /\ \E raw \in RawTeams :
        \/ Finish("toTeamMinimal", [NoArg EXCEPT !.fn = "toTeamMinimal", !.raw = raw],
                  Ret(toTeamMinimal(raw)), FALSE)
        \/ Finish("toTeamStandard", [NoArg EXCEPT !.fn = "toTeamStandard", !.raw = raw],
                  Ret(toTeamStandard(raw)), FALSE)

FrameNext ==
    \/ CallCleanFilter
    \/ CallCleanFilterAgain
    \/ CallSearchIssues
    \/ CallSearchAccounts
    \/ CallSearchContacts
    \/ Respond
    \/ CallProject
    \/ CallToIssueFull
    \/ CallToTeam

FrameSpec == Init /\ [][FrameNext]_vars

\* the calls that take a filter, and the calls that take a raw record
TakesFilter(o) == o \in {"cleanFilter", "searchIssues", "searchAccounts", "searchContacts"}

TakesRaw(o) == o \in ProjectionNames \cup {"toIssueFull", "toTeamMinimal", "toTeamStandard"}

IsGiven(bound) == bound.t = "string" /\ bound.s # ""

\* the failure kind of a pair of timestamps, from the timestamps alone
KindOfPair(s, e) ==
    IF DateParse(s).nan \/ DateParse(e).nan THEN "InvalidTimestamp"
    ELSE IF ~TimeLess(DateParse(s), DateParse(e)) THEN "InvalidRange"
    ELSE IF TimeDiff(DateParse(s), DateParse(e)).day > 30
            \/ (TimeDiff(DateParse(s), DateParse(e)).day = 30
                /\ TimeDiff(DateParse(s), DateParse(e)).ms > 0)
    THEN "RangeTooLarge"
    ELSE "none"

\* the positions of the top-level fields of a filter that carry a time_range
\* with both bounds given whose pair of timestamps is not acceptable
OffendingFields(filter) ==
    {i \in 1..Len(filter.o) :
        LET tr == Get(filter.o[i].v, "time_range")
        IN  /\ IsGiven(Get(tr, "start"))
            /\ IsGiven(Get(tr, "end"))
            /\ KindOfPair(Get(tr, "start").s, Get(tr, "end").s) # "none"}

\* the failure kind a message of validateTimeRange identifies by its first words
KindOfMessage(msg) ==
    CASE msg[1].txt \in {"Invalid start_time format: ", "Invalid end_time format: "} ->
            "InvalidTimestamp"
      [] msg[1].txt = "start_time must be before end_time" -> "InvalidRange"
      [] msg[1].txt = "Time range cannot exceed " -> "RangeTooLarge"
      [] OTHER -> "unknown"

\* C23: when validateFilterTimeRanges rejects the filter of searchIssues, the
\* error reads 'Invalid time_range for <field>: <message>' where <field> is
\* the first top-level field in filter order whose time_range is not
\* acceptable and <message> is the message validateTimeRange gives for that
\* pair, unchanged, from which the failure kind can be told.
C23_ErrorNamesOffendingField ==
    (op = "searchIssues" /\ OffendingFields(arg.filter) # {}) =>
        LET i == First(OffendingFields(arg.filter))
            tr == Get(arg.filter.o[i].v, "time_range")
            wrapped == SubSeq(result.err.msg, 4, Len(result.err.msg))
        IN  /\ phase = "thrown"
            /\ SubSeq(result.err.msg, 1, 3)
                  = <<Txt("Invalid time_range for "), Txt(arg.filter.o[i].k), Txt(": ")>>
            /\ wrapped = validateTimeRange(Get(tr, "start").s, Get(tr, "end").s).msg
            /\ KindOfMessage(wrapped) = KindOfPair(Get(tr, "start").s, Get(tr, "end").s)

\* a filter with two offending fields, the unknown field first: the error
\* names that field and wraps the range-too-large message
C23_Witness ==
    /\ op = "searchIssues"
    /\ phase = "thrown"
    /\ Len(arg.filter.o) = 2
    /\ arg.filter.o[1].k = "custom"
    /\ arg.filter.o[2].k = "created_at"
    /\ OffendingFields(arg.filter) = {1, 2}
    /\ result.err.msg[2] = Txt("custom")
    /\ result.err.msg[4] = Txt("Time range cannot exceed ")

\* the entries of an object that are null, and those that are scalars or arrays
NullEntries(v) == {i \in 1..Len(v.o) : v.o[i].v.t \in {"undefined", "null"}}

PlainEntries(v) ==
    {i \in 1..Len(v.o) : v.o[i].v.t \in {"string", "number", "boolean", "array"}}

RECURSIVE KeepsPlainValues(_, _)
\* in the cleaned filter `cleaned` of the filter v: no field whose value is
\* null in v, every field whose value in v is a scalar or an array with that
\* value, and the same beneath every field outside the whitelist that is kept
KeepsPlainValues(v, cleaned) ==
    /\ \A i \in NullEntries(v) : v.o[i].k \notin Keys(cleaned)
    /\ \A i \in PlainEntries(v) : Get(cleaned, v.o[i].k) = v.o[i].v
    /\ \A i \in 1..Len(v.o) :
          (/\ v.o[i].v.t = "object"
           /\ LookupValidOperators(v.o[i].k).kind = "undefined"
           /\ v.o[i].k \in Keys(cleaned))
              => KeepsPlainValues(v.o[i].v, Get(cleaned, v.o[i].k))

\* C24: in the filter cleanFilter returns, a field whose value is null or
\* absent is missing and a field whose value is a scalar or an array is
\* present with the same value, whether or not the field is in the
\* whitelist and at every level cleanFilter descends to.
C24_PlainValuesKept ==
    (op = "cleanFilter" /\ phase = "returned") =>
        KeepsPlainValues(arg.filter, result.val)

\* a null field and an array under the same whitelisted name in two filters:
\* here a string under "title" was kept although "title" expects operators,
\* and the null "state" is gone
C24_Witness ==
    /\ op = "cleanFilter"
    /\ phase = "returned"
    /\ Get(arg.filter, "title") = Str("bug")
    /\ "state" \in Keys(arg.filter)
    /\ Get(arg.filter, "state") = Null
    /\ result.val = Obj(<<Entry("title", Str("bug"))>>)

RECURSIVE PruneEntries(_)
\* the entries es without the null entries and without the objects that are
\* empty once pruned, every other value and key as it is
PruneEntries(es) ==
    IF es = <<>> THEN <<>>
    ELSE LET e == Head(es)
             rest == PruneEntries(Tail(es))
         IN  IF e.v.t \in {"undefined", "null"} THEN rest
             ELSE IF e.v.t = "object"
             THEN (IF PruneEntries(e.v.o) = <<>> THEN rest
                   ELSE <<Entry(e.k, Obj(PruneEntries(e.v.o)))>> \o rest)
             ELSE <<e>> \o rest

\* the positions of the top-level fields outside the whitelist whose value is an object
UnknownFields(filter) ==
    {i \in 1..Len(filter.o) :
        /\ filter.o[i].v.t = "object"
        /\ filter.o[i].k \notin DOMAIN VALID_OPERATORS}

\* C25: cleanFilter keeps a field outside the whitelist exactly when its
\* value still has a field once null and empty entries are removed, and the
\* value kept is the original value without those entries: no key beneath
\* the field is dropped because of the operator whitelist.
C25_UnknownFieldsKeptVerbatim ==
    (op = "cleanFilter" /\ phase = "returned") =>
        \A i \in UnknownFields(arg.filter) :
            LET kept == PruneEntries(arg.filter.o[i].v.o)
            IN  /\ arg.filter.o[i].k \in Keys(result.val) <=> kept # <<>>
                /\ kept # <<>> => Get(result.val, arg.filter.o[i].k) = Obj(kept)

\* C26: searchIssues is rejected by validateFilterTimeRanges exactly when a
\* top-level field of the raw filter, whitelisted or not, has an object value
\* carrying a time_range with both bounds given that is not acceptable:
\* a time_range with one bound, and a field whose value is an array or a
\* scalar, never cause a rejection, and the rejection comes before cleaning,
\* whether cleanFilter would drop the time_range or fail.
C26_ValidatesRawTopLevelRanges ==
    op = "searchIssues" =>
        /\ OffendingFields(arg.filter) # {} <=>
              (/\ phase = "thrown"
               /\ sent = <<>>
               /\ result.err.kind \in {"InvalidTimestamp", "InvalidRange", "RangeTooLarge"})
        /\ OffendingFields(arg.filter) = {} =>
              (sent # <<>> \/ result.err.kind = "TypeError")

\* a 38-day time_range under "title", whose whitelist has no time_range: the
\* search is rejected although cleaning would have dropped the operator
C26_Witness ==
    /\ op = "searchIssues"
    /\ Keys(arg.filter) = {"title"}
    /\ cleanFilter(arg.filter) = Ret(Undef)
    /\ phase = "thrown"
    /\ result.err.kind = "RangeTooLarge"
    /\ result.err.msg[2] = Txt("title")
    /\ sent = <<>>

RECURSIVE HasNullOrEmpty(_)
\* the object or array v has, at some depth, a null value or an empty object
HasNullOrEmpty(v) ==
    \/ \E i \in 1..Len(v.o) :
          \/ v.o[i].v.t \in {"undefined", "null"}
          \/ v.o[i].v = Obj(<<>>)
          \/ HasNullOrEmpty(v.o[i].v)
    \/ \E i \in 1..Len(v.a) :
          \/ v.a[i].t \in {"undefined", "null"}
          \/ v.a[i] = Obj(<<>>)
          \/ HasNullOrEmpty(v.a[i])

\* C27: the filter cleanFilter returns has no null value and no empty object
\* at any depth, the operands of whitelisted operators included.
C27_NoNullOrEmptyAtAnyDepth ==
    (op = "cleanFilter" /\ phase = "returned") => ~HasNullOrEmpty(result.val)

(***************************************************************************)
(* Further properties of the tools and of the table formatters.            *)
(***************************************************************************)
\* the number of entries of raw.users, 0 when the record has no users
UsersOf(raw) == IF Get(raw, "users").t = "array" THEN Len(Get(raw, "users").a) ELSE 0

\* the Members cell for n members
MembersCell(n) ==
    IF n = 0 THEN "-"
    ELSE NumToString(n) \o (IF n = 1 THEN " member" ELSE " members")

\* C28: for every team of the response, toTeamMinimal gives member_count the
\* number of entries of users, and the row pylon_list_teams renders for the
\* team ends with 'n member' / 'n members' in the Members column, with '-'
\* only for a team without members.
C28_MemberCountsRendered ==
    (op = "pylon_list_teams" /\ phase = "returned") =>
        \A i \in 1..Len(ReceivedRecord.a) :
            LET raw == ReceivedRecord.a[i]
            IN  /\ Get(raw, "users").t = "array" =>
                      Get(toTeamMinimal(raw), "member_count") = Num(UsersOf(raw))
                /\ EndsWith(Lines(result.val.s)[i + 2],
                            "| " \o MembersCell(UsersOf(raw)) \o " |")

StartsWith(text, prefix) ==
    Len(prefix) <= Len(text) /\ SubSeq(text, 1, Len(prefix)) = prefix

\* the width of the long text column of a table, and the field it shows
WidthOf(fn) == IF fn = "formatIssuesAsTable" THEN 60 ELSE 40

TextField(fn) == IF fn = "formatIssuesAsTable" THEN "title" ELSE "name"

\* a text cut to a width: texts over the width become width - 3 characters and '...'
Cut(x, w) == IF Len(x) <= w THEN x ELSE SubSeq(x, 1, w - 3) \o "..."

\* a text with its column delimiters and newlines replaced
Escaped(x) == ReplaceChar(ReplaceChar(x, "|", "\\|"), "\n", " ")

\* the text of a field of a record, empty when the record has none
TextOf(r, field) ==
    IF Get(r, field).t = "string" THEN Get(r, field).s
    ELSE IF Get(r, field).t = "number" THEN NumToString(Get(r, field).n)
    ELSE ""

\* how the data row of record r begins: its number or id, then, in the
\* tables with a long text column, the text cut to the width and escaped
RowLead(fn, r) ==
    "| " \o Escaped(TextOf(r, IF fn = "formatIssuesAsTable" THEN "number" ELSE "id")) \o " | "
    \o (IF fn = "formatTagsAsTable" THEN ""
        ELSE Escaped(Cut(TextOf(r, TextField(fn)), WidthOf(fn))) \o " | ")

RECURSIVE RowsInOrder(_, _)
\* text is one row per element of leads, in that order, separated by
\* newlines, each row beginning as its lead says and ending the row with ' |'
RowsInOrder(text, leads) ==
    IF Len(leads) = 1
    THEN StartsWith(text, leads[1]) /\ EndsWith(text, " |")
    ELSE \E j \in Positions(text, {"\n"}) :
            /\ StartsWith(SubSeq(text, 1, j - 1), leads[1])
            /\ EndsWith(SubSeq(text, 1, j - 1), " |")
            /\ RowsInOrder(SubSeq(text, j + 1, Len(text)), Tail(leads))

\* C29: a formatter given no record returns the 'No ... found.' message;
\* given records it returns a header row, a separator row and one data row
\* per record in input order, where the title of an issue is cut to 60
\* characters and the name of an account, contact or team to 40 (the first
\* width - 3 characters and '...' when longer) before the cell is escaped.
C29_TruncatedBeforeEscaping ==
    op \in FormatterNames =>
        LET rows == Get(arg, "rows").a
            text == result.val.s
            lines == Lines(text)
        IN  IF rows = <<>>
            THEN StartsWith(text, "No ") /\ EndsWith(text, " found.") /\ Len(lines) = 1
            ELSE /\ Len(lines) >= Len(rows) + 2
                 /\ RowsInOrder(SubSeq(text, Len(lines[1]) + Len(lines[2]) + 3, Len(text)),
                                [i \in 1..Len(rows) |-> RowLead(op, rows[i])])

\* an account name of 40 characters with a '|' in it is not cut and is
\* escaped to 41 characters, after a plain record
C29_Witness ==
    /\ op = "formatAccountsAsTable"
    /\ Len(Get(arg, "rows").a) = 2
    /\ LET name == Get(Get(arg, "rows").a[2], "name")
       IN  /\ name.t = "string"
           /\ Len(name.s) = 40
           /\ Positions(name.s, {"|"}) = {39}
           /\ Contains(result.val.s, "| " \o Escaped(name.s) \o " |")

\* the interpolated numbers of a message, in order
NumbersOf(msg) == SelectSeq(msg, LAMBDA part : part.num # <<>>)

\* C30: validateTimeRange reports one failure, chosen in a fixed order: an
\* unparseable start gives the invalid-timestamp failure that quotes the
\* start, whatever the end is; with a parseable start an unparseable end
\* gives the invalid-timestamp failure that quotes the end; two parseable
\* timestamps with start >= end give InvalidRange; RangeTooLarge is raised
\* only for two parseable timestamps with start < end, and its message
\* carries the limit and the requested span to one decimal.
C30_FailurePrecedence ==
    (op = "validateTimeRange" /\ phase \in {"returned", "thrown"}) =>
        LET start == DateParse(arg.startTime)
            end == DateParse(arg.endTime)
            err == result.err
        IN  /\ phase = "thrown" <=> err.kind # "none"
            /\ err.kind \in {"none", "InvalidTimestamp", "InvalidRange", "RangeTooLarge"}
            /\ err.kind # "none" => KindOfMessage(err.msg) = err.kind
            /\ start.nan =>
                /\ err.kind = "InvalidTimestamp"
                /\ err.msg[1].txt = "Invalid start_time format: "
                /\ err.msg[2].txt = arg.startTime
            /\ (~start.nan /\ end.nan) =>
                /\ err.kind = "InvalidTimestamp"
                /\ err.msg[1].txt = "Invalid end_time format: "
                /\ err.msg[2].txt = arg.endTime
            /\ (~start.nan /\ ~end.nan /\ ~TimeLess(start, end)) => err.kind = "InvalidRange"
            /\ err.kind = "RangeTooLarge" =>
                /\ ~start.nan /\ ~end.nan /\ TimeLess(start, end)
                /\ NumbersOf(err.msg) =
                       <<NumPart(<<MAX_TIME_RANGE_DAYS>>), NumPart(ToFixed1(TimeDiff(start, end)))>>
            /\ (arg.startTime = "2024-02-01T00:00:00Z" /\ arg.endTime = "2024-03-10T00:00:00Z") =>
                /\ err.kind = "RangeTooLarge"
                /\ NumbersOf(err.msg)[2].num = <<38, 0>>

\* both timestamps are unparseable and the start is the one reported
C30_Witness ==
    /\ op = "validateTimeRange"
    /\ phase = "thrown"
    /\ DateParse(arg.startTime).nan
    /\ DateParse(arg.endTime).nan
    /\ result.err.msg[1].txt = "Invalid start_time format: "

====
